---- MODULE Spec2Model ----
(***************************************************************************)
(* Model of the NESO-Spack package recipes.                                *)
(*                                                                         *)
(* The recipes are single-threaded glue: each method is a function of the  *)
(* concrete spec (the chosen variants), of what the filesystem searches    *)
(* return and of the installed configuration files.  Every method is one   *)
(* action; the values it reads from outside the recipe (search results,    *)
(* file contents, the outcome of an external command, the iteration order  *)
(* of a Python set) are inputs drawn from small sets.                      *)
(*                                                                         *)
(* Strings that the code assembles from words separated by blanks (link    *)
(* lines, compiler flags) are sequences of words; a path found by a        *)
(* search is the pair <<directory, file name>>, so that path.dirname is a  *)
(* projection and not the identity.                                        *)
(***************************************************************************)
EXTENDS Naturals, Integers, Sequences, FiniteSets, TLC

VARIABLES
    pkg,        \* the recipe the behaviour exercises
    spec,       \* the spec handed to the recipe: a record of variants
    pc,         \* position in the recipe's life cycle
    err,        \* the exception the last method raised, "none" when it returned
    args,       \* the list cmake_args returned
    found,      \* search name -> the matches the search returned (searches made so far)
    used,       \* search name -> the match the recipe went on to use
    files,      \* the installed compiler-driver config files
    deps,       \* dependency edges the directives declare for the spec
    versions,   \* the released versions a recipe enumerates, newest first
    idx,        \* the index into versions handed to _restrict_to_version
    constraint, \* the version constraint _restrict_to_version returned
    conflicts,  \* the conflicts the version loop declared
    env,        \* the environment modifications: variable -> list of entries
    calls,      \* number of environment hooks run on env
    disk,       \* the directories a post-install step moves or links
    rerun,      \* the config files a second run of filter_config_file wrote
    view        \* the view python extensions are activated in

vars == <<pkg, spec, pc, err, args, found, used, files, deps,
          versions, idx, constraint, conflicts, env, calls, disk, rerun, view>>

\* the variables the build methods of a recipe leave alone
versionVars == <<versions, idx, constraint, conflicts>>
envVars == <<env, calls>>
notBuild == <<versionVars, envVars, disk, rerun, view>>
buildVars == <<args, found, used, files, deps, rerun>>

-----------------------------------------------------------------------------
(* Bounds of the model                                                     *)

\* the largest number of matches a filesystem search returns
MaxMatches == 2

\* the newest version a recipe enumerates (versions are 1..MaxVersion)
MaxVersion == 5

\* the longest list of versions a recipe enumerates
MaxVersions == 4

\* the number of environment hooks run on one environment
MaxCalls == 2

-----------------------------------------------------------------------------
(* Generic helpers                                                         *)

Absent == "<absent>"

Range(f) == {f[x] : x \in DOMAIN f}

\* the sequences that list every element of the finite set S exactly once
Orders(S) == {q \in [1..Cardinality(S) -> S] : Range(q) = S}

\* " ".join(word(p) for p in order), each element giving the words <<w, p>>
RECURSIVE JoinFlag(_, _)
JoinFlag(w, order) ==
    IF order = <<>> THEN <<>>
    ELSE <<w, Head(order)>> \o JoinFlag(w, Tail(order))

\* path.dirname of a found path <<directory, file name>>
dirname(p) == p[1]

\* the result f of a step that has not raised
Ok(r) == r.err = "none"

Raise(r, e) == [r EXCEPT !.err = e]

\* record that search n returned the matches m
Searched(r, n, m) == [r EXCEPT !.found = (n :> m) @@ r.found]

\* record that the recipe used match p of search n
Used(r, n, p) == [r EXCEPT !.used = (n :> p) @@ r.used]

Append1(r, flags) == [r EXCEPT !.args = r.args \o flags]

EmptyMap == [x \in {} |-> <<>>]

Start == [err |-> "none", args |-> <<>>, found |-> EmptyMap, used |-> EmptyMap]

-----------------------------------------------------------------------------
(* Filesystem searches                                                     *)

\* directories a search can find a file in
DirNames == <<"/d1", "/d2", "/d3", "/d4", "/d5">>

\* what filesystem.find / glob can return for file `name`: up to MaxMatches
\* paths, in consecutive directories from one of the directories `firsts`
Matches(name, firsts) ==
    {<<>>} \cup
    {[i \in 1..k |-> <<DirNames[f + i - 1], name>>] : f \in firsts, k \in 1..MaxMatches}

-----------------------------------------------------------------------------
(* AdaptiveCpp: variants and directives                                    *)

default_compilationflow == "omplibraryonly"

Flows == {default_compilationflow, "ompaccelerated", "cudallvm", "cudanvcxx", "generic"}

default_cuda_arch == "none"

\* default_cuda_arch and one representative of CudaPackage.cuda_arch_values
cuda_arch_values == {default_cuda_arch, "80"}

\* every combination of the variants; a multi-valued variant may be missing
\* from spec.variants, which the recipe handles in its two properties
AcppSpecs ==
    [name : {"adaptivecpp"},
     compilationflow : Flows \cup {Absent},
     cuda_arch : cuda_arch_values \cup {Absent},
     cuda : BOOLEAN, nvcxx : BOOLEAN, omp_llvm : BOOLEAN, opencl : BOOLEAN]

compilation_workflow(s) ==
    IF s.compilationflow # Absent THEN s.compilationflow ELSE default_compilationflow

\* cuda_arch without the default for a variant missing from the spec
cuda_arch_NoDefault(s) == s.cuda_arch

cuda_arch(s) ==
    IF s.cuda_arch # Absent THEN s.cuda_arch ELSE default_cuda_arch

\* the specs that turn the nvc++ backend on: the loop variable specx
AcppNvcxxSpecx(s) == s.nvcxx \/ s.compilationflow = "cudanvcxx"

\* conflicts("cuda_arch=none", when="compilationflow=cudallvm")
AcppConflictCudaArch(s) ==
    s.cuda_arch = "none" /\ s.compilationflow = "cudallvm"

\* the six conflicts of the loop over specx: when +cuda, when
\* compilationflow=cudallvm, when +omp_llvm
AcppConflictNvcxxLlvm(s) ==
    AcppNvcxxSpecx(s) /\ (s.cuda \/ s.compilationflow = "cudallvm" \/ s.omp_llvm)

AcppConflicts(s) == AcppConflictCudaArch(s) \/ AcppConflictNvcxxLlvm(s)

\* the when= conditions of the depends_on("llvm...") directives
AcppDependsOnLlvm(s) ==
    \/ s.cuda
    \/ s.omp_llvm
    \/ s.compilationflow = "generic"
    \/ s.compilationflow = "ompaccelerated"
    \/ s.compilationflow = "cudallvm"

\* the when= conditions of the depends_on("nvhpc-transitive...") directives
AcppDependsOnNvhpcTransitive(s) ==
    s.nvcxx \/ s.compilationflow = "cudanvcxx"

-----------------------------------------------------------------------------
(* AdaptiveCpp: cmake_args                                                 *)

\* what cmake_args reads from the filesystem
AcppCmakeInputs ==
    [exports : Matches("LLVMExports.cmake", {1}),
     wrapper : Matches("__clang_cuda_runtime_wrapper.h", {1}),
     clang_exe : BOOLEAN,
     nvcpp : Matches("nvc++", {1})]

\* the check that cudallvm has a cuda_arch
AcppCheckCudaArch(r, s) ==
    IF compilation_workflow(s) = "cudallvm" /\ default_cuda_arch = cuda_arch(s)
    THEN Raise(r, "SpackError")
    ELSE Append1(r, <<"-DACPP_VERSION_SUFFIX=spack",
                      "-DWITH_CPU_BACKEND:Bool=TRUE",
                      "-DWITH_ROCM_BACKEND:Bool=FALSE",
                      "-DWITH_STDPAR_COMPILER:Bool=FALSE">>)

\* a search whose result must be unique: InstallError unless exactly one
\* match, otherwise the flag built from the directory of the match
UniqueDirFlag(r, n, m, flag) ==
    IF ~Ok(r) THEN r
    ELSE IF Len(m) # 1 THEN Raise(Searched(r, n, m), "InstallError")
    ELSE Append1(Used(Searched(r, n, m), n, m[1]), <<flag \o dirname(m[1])>>)

\* the `if "llvm" in spec:` block shared by the two SYCL recipes
LlvmCmakeBlock(r, llvm, fs) ==
    IF ~Ok(r) \/ ~llvm THEN r
    ELSE LET r1 == Append1(r, <<"-DDISABLE_LLVM_VERSION_CHECK:Bool=TRUE">>)
             r2 == UniqueDirFlag(r1, "LLVMExports.cmake", fs.exports,
                                 "-DLLVM_DIR:String=")
             r3 == UniqueDirFlag(r2, "__clang_cuda_runtime_wrapper.h", fs.wrapper,
                                 "-DCLANG_INCLUDE_PATH:String=")
         IN  IF ~Ok(r3) THEN r3
             ELSE IF ~fs.clang_exe THEN Raise(r3, "InstallError")
             ELSE Append1(r3, <<"-DCLANG_EXECUTABLE_PATH:String=/llvm/bin/clang++">>)

\* the CUDA backend flags
CudaBackendFlags(r, cuda_backend, off) ==
    IF ~Ok(r) THEN r
    ELSE IF cuda_backend
    THEN Append1(r, <<"-DCUDA_TOOLKIT_ROOT_DIR:String=/cuda",
                      "-DWITH_CUDA_BACKEND:Bool=TRUE">>)
    ELSE Append1(r, off)

\* the nvc++ block shared by the two SYCL recipes: the glob for nvc++
NvcxxBlock(r, nvcxx, llvm, fs) ==
    IF ~Ok(r) \/ ~nvcxx THEN r
    ELSE LET r1 == Searched(r, "nvc++", fs.nvcpp)
         IN  IF Len(fs.nvcpp) < 1 THEN Raise(r1, "InstallError")
             ELSE LET r2 == Append1(Used(r1, "nvc++", fs.nvcpp[1]),
                                    <<"-DNVCXX_COMPILER=" \o fs.nvcpp[1][1]
                                        \o "/" \o fs.nvcpp[1][2]>>)
                  IN  IF ~llvm THEN Append1(r2, <<"-DWITH_CUDA_NVCXX_ONLY=ON">>)
                      ELSE r2

Acpp_cmake_args(s, fs) ==
    LET llvm == AcppDependsOnLlvm(s)
        cudallvm_in_spec == s.cuda \/ compilation_workflow(s) = "cudallvm"
        cudanvcxx_in_spec == s.nvcxx \/ compilation_workflow(s) = "cudanvcxx"
        r1 == AcppCheckCudaArch(Start, s)
        r2 == LlvmCmakeBlock(r1, llvm, fs)
        r3 == CudaBackendFlags(r2, cudallvm_in_spec \/ cudanvcxx_in_spec,
                               <<"-DWITH_CUDA_BACKEND:Bool=FALSE",
                                 "-DDISABLE_FIND_PACKAGE_CUDA=TRUE">>)
        r4 == NvcxxBlock(r3, cudanvcxx_in_spec, llvm, fs)
        r5 == IF Ok(r4) /\ ~llvm
              THEN Append1(r4, <<"-DWITH_SSCP_COMPILER:Bool=FALSE",
                                 "-DWITH_OPENCL_BACKEND=OFF",
                                 "-DWITH_ACCELERATED_CPU=OFF",
                                 "-DBUILD_CLANG_PLUGIN=OFF">>)
              ELSE r4
    IN  IF Ok(r5) /\ s.opencl
        THEN Append1(r5, <<"-DWITH_SSCP_COMPILER:Bool=TRUE",
                           "-DWITH_OPENCL_BACKEND=ON">>)
        ELSE r5

-----------------------------------------------------------------------------
(* hipSYCL: variants and cmake_args                                        *)

HipsyclSpecs ==
    [name : {"hipsycl"}, cuda : BOOLEAN, nvcxx : BOOLEAN, omp_llvm : BOOLEAN]

\* the when= conditions of the depends_on("llvm...") directives
HipsyclDependsOnLlvm(s) == s.cuda \/ s.omp_llvm

Hipsycl_cmake_args(s, fs) ==
    LET llvm == HipsyclDependsOnLlvm(s)
        r1 == Append1(Start, <<"-DWITH_CPU_BACKEND:Bool=TRUE",
                               "-DWITH_ROCM_BACKEND:Bool=FALSE">>)
        r2 == IF llvm THEN LlvmCmakeBlock(r1, llvm, fs)
              ELSE Append1(r1, <<"-DCMAKE_C_FLAGS=-fopenmp",
                                 "-DCMAKE_CXX_FLAGS=-fopenmp">>)
        r3 == CudaBackendFlags(r2, s.cuda \/ s.nvcxx,
                               <<"-DWITH_CUDA_BACKEND:Bool=FALSE">>)
        r4 == NvcxxBlock(r3, s.nvcxx, llvm, fs)
    IN  IF Ok(r4) /\ ~llvm
        THEN Append1(r4, <<"-DWITH_ACCELERATED_CPU=OFF",
                           "-DBUILD_CLANG_PLUGIN=OFF">>)
        ELSE r4

-----------------------------------------------------------------------------
(* The installed compiler-driver configuration files                       *)

\* A config file is the dict json.load returns: a function from the keys
\* of the file to their values.  Link lines and flag strings are sequences
\* of words; the compiler and the targets are single strings.

default_cpu_cxx == "default-cpu-cxx"
default_targets == "default-targets"
default_cuda_link_line == "default-cuda-link-line"
default_omp_link_line == "default-omp-link-line"
default_cuda_cxx_flags == "default-cuda-cxx-flags"

\* self.compiler.cxx
compiler_cxx == "/usr/bin/g++"

\* the value the build writes for a key
Installed(k) ==
    CASE k = default_cpu_cxx -> "/spack/env/gcc/g++"
      [] k = default_targets -> ""
      [] k = default_cuda_link_line -> <<"-lcudart">>
      [] k = default_omp_link_line -> <<"-fopenmp">>
      [] k = default_cuda_cxx_flags -> <<"-O3">>

ConfigWith(keys) == [k \in keys |-> Installed(k)]

\* config[k] = v
Put(config, k, v) == (k :> v) @@ config

\* the contents the build can leave in the main config file: the compiler
\* entry, and any of the targets, the OpenMP link line and the CUDA entries
\* (link line and flags; releases without acpp-cuda.json keep both here)
MainConfigs ==
    {ConfigWith({default_cpu_cxx} \cup ks \cup cs) :
        ks \in SUBSET {default_targets, default_omp_link_line},
        cs \in {{}, {default_cuda_link_line, default_cuda_cxx_flags}}}

FullMainConfig ==
    ConfigWith({default_cpu_cxx, default_targets, default_omp_link_line,
                default_cuda_link_line, default_cuda_cxx_flags})

FullCudaConfig == ConfigWith({default_cuda_link_line, default_cuda_cxx_flags})

\* the contents the build can leave in acpp-cuda.json
CudaConfigs ==
    {ConfigWith(ks) : ks \in SUBSET {default_cuda_link_line, default_cuda_cxx_flags}}

\* k copies of the same file in different directories
Copies(c, k) == [i \in 1..k |-> c]

\* what an AdaptiveCpp build can install: the main config files and the
\* separate CUDA config files, each in up to MaxMatches directories
AcppInstalled ==
    {[main |-> <<c>>, cuda |-> Copies(d, j)] :
        c \in MainConfigs, d \in CudaConfigs, j \in 0..1}
    \cup {[main |-> <<c>>, cuda |-> Copies(FullCudaConfig, j)] :
            c \in MainConfigs, j \in 2..MaxMatches}
    \cup {[main |-> Copies(FullMainConfig, k), cuda |-> <<>>] :
            k \in {0} \cup 2..MaxMatches}

\* what a hipSYCL build can install: syclcc.json only
HipsyclInstalled ==
    {[main |-> Copies(ConfigWith({default_cpu_cxx} \cup ks), k), cuda |-> <<>>] :
        ks \in SUBSET {default_cuda_link_line}, k \in 0..MaxMatches}

\* the paths filesystem.find returns for the installed files q named name
ConfigPaths(q, name) == [i \in 1..Len(q) |-> <<DirNames[i], name>>]

NoFiles == [main |-> <<>>, cuda |-> <<>>]

-----------------------------------------------------------------------------
(* filter_config_file                                                      *)

\* what filter_config_file finds under the llvm prefix
LlvmLibInputs ==
    [libcxx : Matches("libc++.so", {1}),
     libcxxabi : Matches("libc++abi.so", {1, 2}),
     libomp : Matches("libomp.so", {1, 2})]

NoLibs == [libcxx |-> <<>>, libcxxabi |-> <<>>, libomp |-> <<>>]

\* UniqueLib with the check `len(so_paths) < 1` of the nvc++ glob in place of
\* `len(so_paths) != 1`
UniqueLib_OnlyEmptyChecked(r, n, m) ==
    IF ~Ok(r) THEN r
    ELSE IF Len(m) < 1 THEN Raise(Searched(r, n, m), "InstallError")
    ELSE Used(Searched(r, n, m), n, m[1])

\* a search whose result must be unique: InstallError unless exactly one match
UniqueLib(r, n, m) ==
    IF ~Ok(r) THEN r
    ELSE IF Len(m) # 1 THEN Raise(Searched(r, n, m), "InstallError")
    ELSE Used(Searched(r, n, m), n, m[1])

\* the search for libomp.so: so_paths[0] without a check of the length
FirstLib(r, n, m) ==
    IF ~Ok(r) THEN r
    ELSE IF Len(m) = 0 THEN Raise(Searched(r, n, m), "IndexError")
    ELSE Used(Searched(r, n, m), n, m[1])

\* the set rpaths: the directories of the matches used
Rpaths(r) ==
    {dirname(r.used[n]) : n \in DOMAIN r.used \cap {"libc++.so", "libc++abi.so", "libomp.so"}}

\* AdaptiveCpp's three searches under the llvm prefix
AcppLlvmLibs(r, fs) ==
    FirstLib(UniqueLib(UniqueLib(r, "libc++.so", fs.libcxx),
                       "libc++abi.so", fs.libcxxabi),
             "libomp.so", fs.libomp)

\* hipSYCL's two searches under the llvm prefix
HipsyclLlvmLibs(r, fs) ==
    UniqueLib(UniqueLib(r, "libc++.so", fs.libcxx), "libc++abi.so", fs.libcxxabi)

\* config[k] += " " + " ".join(flag p for p in rpaths), when k is in config
AppendRpaths(config, k, flag, ord) ==
    IF k \in DOMAIN config
    THEN [config EXCEPT ![k] = @ \o JoinFlag(flag, ord)]
    ELSE config

\* AcppCudaRpaths with the rpaths always put in the main config
AcppCudaRpaths_MainOnly(cfgs, ord) ==
    [cfgs EXCEPT !.main = AppendRpaths(@, default_cuda_link_line, "-rpath", ord)]

\* the rpaths for the CUDA link line: in the CUDA config when there is one,
\* in the main config otherwise
AcppCudaRpaths(cfgs, ord) ==
    IF cfgs.has_cuda
    THEN [cfgs EXCEPT !.cuda = AppendRpaths(@, default_cuda_link_line, "-rpath", ord)]
    ELSE [cfgs EXCEPT !.main = AppendRpaths(@, default_cuda_link_line, "-rpath", ord)]

\* the rpaths for the OpenMP link line of the main config
AcppOmpRpaths(cfgs, ord) ==
    [cfgs EXCEPT !.main = AppendRpaths(@, default_omp_link_line, "-Wl,-rpath", ord)]

\* cuda_config[kx] += " --no-restrict-keyword" for the keys it holds
AppendWord(config, k, w) ==
    IF k \in DOMAIN config THEN [config EXCEPT ![k] = Append(@, w)] ELSE config

AcppNoRestrictKeyword(cfgs, cudanvcxx_in_spec) ==
    IF cudanvcxx_in_spec /\ cfgs.has_cuda
    THEN [cfgs EXCEPT !.cuda =
            AppendWord(AppendWord(@, default_cuda_link_line, "--no-restrict-keyword"),
                       default_cuda_cxx_flags, "--no-restrict-keyword")]
    ELSE cfgs

\* AcppCudaArchSuffix with the prefixes of the two CUDA flows exchanged
AcppCudaArchSuffix_Swapped(s) ==
    IF cuda_arch(s) # "none"
    THEN IF compilation_workflow(s) = "cudallvm" THEN ":cc" \o cuda_arch(s)
         ELSE IF compilation_workflow(s) = "cudanvcxx" THEN ":sm_" \o cuda_arch(s)
         ELSE ""
    ELSE ""

\* the suffix naming the CUDA architecture
AcppCudaArchSuffix(s) ==
    IF cuda_arch(s) # "none"
    THEN IF compilation_workflow(s) = "cudallvm" THEN ":sm_" \o cuda_arch(s)
         ELSE IF compilation_workflow(s) = "cudanvcxx" THEN ":cc" \o cuda_arch(s)
         ELSE ""
    ELSE ""

map_variant_to_target(s) ==
    [omplibraryonly |-> "omp.library-only",
     ompaccelerated |-> "omp.accelerated",
     cudallvm |-> "cuda" \o AcppCudaArchSuffix(s),
     cudanvcxx |-> "cuda-nvcxx" \o AcppCudaArchSuffix(s),
     generic |-> "generic"]

\* config["default-targets"] is replaced when the config has the key
AcppDefaultTargets(cfgs, s) ==
    IF default_targets \in DOMAIN cfgs.main
    THEN [cfgs EXCEPT !.main[default_targets] =
            map_variant_to_target(s)[compilation_workflow(s)]]
    ELSE cfgs

\* json.dump of the patched configs over the files that were read
WriteBack(fl, cfgs) ==
    [main |-> [fl.main EXCEPT ![1] = cfgs.main],
     cuda |-> IF cfgs.has_cuda THEN [fl.cuda EXCEPT ![1] = cfgs.cuda] ELSE fl.cuda]

\* filter_config_file up to the end of the searches: the searches made, the
\* matches used and the exception raised
AcppFilterSearches(s, fl, fs) ==
    LET r1 == UniqueLib(Start, "acpp-core.json", ConfigPaths(fl.main, "acpp-core.json"))
        cp == ConfigPaths(fl.cuda, "acpp-cuda.json")
        r2 == IF ~Ok(r1) THEN r1
              ELSE IF Len(cp) > 0
              THEN Used(Searched(r1, "acpp-cuda.json", cp), "acpp-cuda.json", cp[1])
              ELSE Searched(r1, "acpp-cuda.json", cp)
    IN  IF Ok(r2) /\ AcppDependsOnLlvm(s) THEN AcppLlvmLibs(r2, fs) ELSE r2

\* filter_config_file: ord is the order in which the set rpaths is iterated
Acpp_filter_config_file(s, fl, fs, ord) ==
    LET r == AcppFilterSearches(s, fl, fs)
        cudanvcxx_in_spec == s.nvcxx \/ compilation_workflow(s) = "cudanvcxx"
    IN  IF ~Ok(r) THEN [r |-> r, files |-> fl]
        ELSE LET c0 == [main |-> Put(fl.main[1], default_cpu_cxx, compiler_cxx),
                        has_cuda |-> Len(fl.cuda) > 0,
                        cuda |-> IF Len(fl.cuda) > 0 THEN fl.cuda[1] ELSE EmptyMap]
                 c1 == IF AcppDependsOnLlvm(s)
                       THEN AcppOmpRpaths(AcppCudaRpaths(c0, ord), ord)
                       ELSE c0
                 c2 == AcppNoRestrictKeyword(c1, cudanvcxx_in_spec)
                 c3 == AcppDefaultTargets(c2, s)
             IN  [r |-> r, files |-> WriteBack(fl, c3)]

HipsyclFilterSearches(s, fl, fs) ==
    LET r1 == UniqueLib(Start, "syclcc.json", ConfigPaths(fl.main, "syclcc.json"))
    IN  IF Ok(r1) /\ HipsyclDependsOnLlvm(s) THEN HipsyclLlvmLibs(r1, fs) ELSE r1

Hipsycl_filter_config_file(s, fl, fs, ord) ==
    LET r == HipsyclFilterSearches(s, fl, fs)
    IN  IF ~Ok(r) THEN [r |-> r, files |-> fl]
        ELSE LET c0 == Put(fl.main[1], default_cpu_cxx, compiler_cxx)
             IN  IF ~HipsyclDependsOnLlvm(s)
                 THEN [r |-> r, files |-> [fl EXCEPT !.main[1] = c0]]
                 ELSE IF default_cuda_link_line \notin DOMAIN c0
                 THEN [r |-> Raise(r, "KeyError"), files |-> fl]
                 ELSE [r |-> r,
                       files |-> [fl EXCEPT !.main[1] =
                                    AppendRpaths(c0, default_cuda_link_line, "-rpath", ord)]]

-----------------------------------------------------------------------------
(* The installation of a SYCL recipe                                       *)

\* the specs the concretizer hands on: those no conflict rejects
AcppPermitted == {s \in AcppSpecs : ~AcppConflicts(s)}

\* cmake_args of AdaptiveCpp
AcppCmakeArgs ==
    /\ pkg = "adaptivecpp" /\ pc = "spec"
    /\ \E fs \in AcppCmakeInputs :
         LET r == Acpp_cmake_args(spec, fs)
         IN  /\ err' = r.err /\ args' = r.args /\ found' = r.found /\ used' = r.used
             /\ pc' = IF Ok(r) THEN "configured" ELSE "failed"
    /\ UNCHANGED <<pkg, spec, files, deps, notBuild>>

\* cmake_args of hipSYCL
HipsyclCmakeArgs ==
    /\ pkg = "hipsycl" /\ pc = "spec"
    /\ \E fs \in AcppCmakeInputs :
         LET r == Hipsycl_cmake_args(spec, fs)
         IN  /\ err' = r.err /\ args' = r.args /\ found' = r.found /\ used' = r.used
             /\ pc' = IF Ok(r) THEN "configured" ELSE "failed"
    /\ UNCHANGED <<pkg, spec, files, deps, notBuild>>

\* the build and install phases: they leave the config files in the prefix
Install ==
    /\ pkg \in {"adaptivecpp", "hipsycl"} /\ pc = "configured"
    /\ files' \in IF pkg = "adaptivecpp" THEN AcppInstalled ELSE HipsyclInstalled
    /\ pc' = "installed"
    /\ found' = EmptyMap /\ used' = EmptyMap
    /\ UNCHANGED <<pkg, spec, err, args, deps, notBuild>>

\* the orders in which the set rpaths can be iterated once the searches r
\* are over (the set is not iterated when a search raised)
RpathOrders(r) == Orders(IF Ok(r) THEN Rpaths(r) ELSE {})

\* run_after("install") of AdaptiveCpp; it reads the llvm prefix when llvm
\* is in the spec
AcppFilterConfigFile ==
    /\ pkg = "adaptivecpp" /\ pc = "installed"
    /\ \E fs \in IF AcppDependsOnLlvm(spec) THEN LlvmLibInputs ELSE {NoLibs} :
         \E ord \in RpathOrders(AcppFilterSearches(spec, files, fs)) :
           LET o == Acpp_filter_config_file(spec, files, fs, ord)
           IN  /\ err' = o.r.err /\ found' = o.r.found /\ used' = o.r.used
               /\ files' = o.files
               /\ pc' = IF Ok(o.r) THEN "done" ELSE "failed"
    /\ UNCHANGED <<pkg, spec, args, deps, notBuild>>

\* run_after("install") of hipSYCL
HipsyclFilterConfigFile ==
    /\ pkg = "hipsycl" /\ pc = "installed"
    /\ \E fs \in IF HipsyclDependsOnLlvm(spec) THEN LlvmLibInputs ELSE {NoLibs} :
         \E ord \in RpathOrders(HipsyclFilterSearches(spec, files, fs)) :
           LET o == Hipsycl_filter_config_file(spec, files, fs, ord)
           IN  /\ err' = o.r.err /\ found' = o.r.found /\ used' = o.r.used
               /\ files' = o.files
               /\ pc' = IF Ok(o.r) THEN "done" ELSE "failed"
    /\ UNCHANGED <<pkg, spec, args, deps, notBuild>>

\* the variables a behaviour does not use
NoBuild ==
    /\ args = <<>> /\ found = EmptyMap /\ used = EmptyMap
    /\ files = NoFiles /\ deps = {} /\ rerun = NoFiles

NoVersions ==
    versions = <<>> /\ idx = 0 /\ constraint = <<>> /\ conflicts = {}

NoEnv == env = EmptyMap /\ calls = 0

NoDisk == disk = EmptyMap

NoView == view = EmptyMap

Init ==
    /\ NoVersions /\ NoEnv /\ NoDisk /\ NoView
    /\ rerun = NoFiles
    /\ pkg \in {"adaptivecpp", "hipsycl"}
    /\ spec \in IF pkg = "adaptivecpp"
                THEN {s \in AcppPermitted : ~s.opencl}
                ELSE HipsyclSpecs
    /\ pc = "spec"
    /\ err = "none"
    /\ args = <<>>
    /\ found = EmptyMap
    /\ used = EmptyMap
    /\ files = NoFiles
    /\ deps = {}

Next ==
    \/ AcppCmakeArgs
    \/ HipsyclCmakeArgs
    \/ Install
    \/ AcppFilterConfigFile
    \/ HipsyclFilterConfigFile

Spec == Init /\ [][Next]_vars

-----------------------------------------------------------------------------
(* Two runs of filter_config_file on the same installation                 *)

\* Two runs start from the same spec, the same installed files and the same
\* llvm prefix contents fs; each run iterates its own set rpaths, in the
\* order its interpreter gives that set (ord1, ord2).
AcppFilterConfigFileTwice ==
    /\ pkg = "adaptivecpp" /\ pc = "installed"
    /\ \E fs \in IF AcppDependsOnLlvm(spec) THEN LlvmLibInputs ELSE {NoLibs} :
         \E ord1, ord2 \in RpathOrders(AcppFilterSearches(spec, files, fs)) :
           LET o == Acpp_filter_config_file(spec, files, fs, ord1)
               o2 == Acpp_filter_config_file(spec, files, fs, ord2)
           IN  /\ err' = o.r.err /\ found' = o.r.found /\ used' = o.r.used
               /\ files' = o.files
               /\ rerun' = o2.files
               /\ pc' = IF Ok(o.r) THEN "done" ELSE "failed"
    /\ UNCHANGED <<pkg, spec, args, deps, versionVars, envVars, disk, view>>

HipsyclFilterConfigFileTwice ==
    /\ pkg = "hipsycl" /\ pc = "installed"
    /\ \E fs \in IF HipsyclDependsOnLlvm(spec) THEN LlvmLibInputs ELSE {NoLibs} :
         \E ord1, ord2 \in RpathOrders(HipsyclFilterSearches(spec, files, fs)) :
           LET o == Hipsycl_filter_config_file(spec, files, fs, ord1)
               o2 == Hipsycl_filter_config_file(spec, files, fs, ord2)
           IN  /\ err' = o.r.err /\ found' = o.r.found /\ used' = o.r.used
               /\ files' = o.files
               /\ rerun' = o2.files
               /\ pc' = IF Ok(o.r) THEN "done" ELSE "failed"
    /\ UNCHANGED <<pkg, spec, args, deps, versionVars, envVars, disk, view>>

NextRerun ==
    \/ AcppCmakeArgs
    \/ HipsyclCmakeArgs
    \/ Install
    \/ AcppFilterConfigFileTwice
    \/ HipsyclFilterConfigFileTwice

SpecRerun == Init /\ [][NextRerun]_vars

-----------------------------------------------------------------------------
(* Dependency edges                                                        *)

\* depends_on(to, type=type) in the recipe of `from`; version is the version
\* of `to` the edge asks for, 0 when it asks for none in particular
Edge(from, to, version, type) ==
    [from |-> from, to |-> to, version |-> version, type |-> type]

\* the type of a depends_on that names none
default_deptype == {"build", "link"}

\* the versions of nvhpc, as year * 100 + month (22.7, 22.9, 22.11, 23.1)
NvhpcVersions == {2207, 2209, 2211, 2301}

\* the oldest nvhpc-transitive AdaptiveCpp accepts: "nvhpc-transitive@22.9:"
nvhpc_transitive_min == 2209

\* the depends_on directives of AdaptiveCpp that hold for spec s; v is the
\* version of nvhpc-transitive the concretizer chose.  The cuda edges of the
\* llvm flows also depend on the llvm version; cuda is taken to be in the spec
\* whenever a CUDA backend is on.
AcppDepends(s, v) ==
    {Edge("adaptivecpp", "c", 0, default_deptype),
     Edge("adaptivecpp", "cxx", 0, default_deptype),
     Edge("adaptivecpp", "cmake", 0, {"build"}),
     Edge("adaptivecpp", "boost", 0, default_deptype),
     Edge("adaptivecpp", "python", 0, default_deptype)}
    \cup (IF AcppDependsOnLlvm(s)
          THEN {Edge("adaptivecpp", "llvm", 0, default_deptype)} ELSE {})
    \cup (IF s.cuda \/ s.compilationflow = "cudallvm"
             \/ s.nvcxx \/ s.compilationflow = "cudanvcxx"
          THEN {Edge("adaptivecpp", "cuda", 0, default_deptype)} ELSE {})
    \cup (IF AcppDependsOnNvhpcTransitive(s)
          THEN {Edge("adaptivecpp", "nvhpc-transitive", v, {"run"})} ELSE {})
    \cup (IF s.opencl
          THEN {Edge("adaptivecpp", "opencl", 0, default_deptype)} ELSE {})

\* NvhpcTransitiveDepends with the edge to nvhpc of type "run"
NvhpcTransitiveDepends_Run(v) ==
    {Edge("nvhpc-transitive", "nvhpc", w, {"run"}) : w \in {w \in NvhpcVersions : w = v}}

\* the loop over available_versions of nvhpc-transitive, for its version v:
\* depends_on("nvhpc@" + w, when="@" + w, type="build")
NvhpcTransitiveDepends(v) ==
    {Edge("nvhpc-transitive", "nvhpc", w, {"build"}) : w \in {w \in NvhpcVersions : w = v}}

\* phases = []
NvhpcTransitivePhases == <<>>

NvhpcTransitiveSpecs == [name : {"nvhpc-transitive"}, version : NvhpcVersions]

\* what is loaded with a package: the packages reached from the set S along
\* edges of the given types
RECURSIVE Reach(_, _, _)
Reach(E, S, types) ==
    LET T == S \cup {e.to : e \in {e \in E : e.from \in S /\ e.type \cap types # {}}}
    IN  IF T = S THEN S ELSE Reach(E, T, types)

DirectDeps(E, root, types) ==
    {e.to : e \in {e \in E : e.from = root /\ e.type \cap types # {}}}

\* loaded when the package is built: its build dependencies and what they
\* need to link and run
BuildClosure(E, root) ==
    Reach(E, DirectDeps(E, root, {"build"}), {"link", "run"})

\* loaded when the package is loaded: the link and run dependencies, transitively
LinkRunClosure(E, root) ==
    Reach(E, DirectDeps(E, root, {"link", "run"}), {"link", "run"})

-----------------------------------------------------------------------------
(* NESO: the sanitizer variant and cmake_args                              *)

SanitizerValues ==
    {"none", "address", "leak", "thread", "memory", "undefined_behaviour"}

NesoSpecs ==
    [name : {"neso"}, sanitizer : (SUBSET SanitizerValues) \ {{}},
     coverage : BOOLEAN, cwipi : BOOLEAN, libonly : BOOLEAN]

\* _validate_sanitizer_variant without 'memory' in the check of 'thread'
validate_sanitizer_variant_NoMemory(values) ==
    IF "none" \in values /\ Cardinality(values) > 1 THEN "SpecError"
    ELSE IF "thread" \in values /\ ("address" \in values \/ "leak" \in values)
    THEN "SpecError"
    ELSE IF "memory" \in values /\ ("address" \in values \/ "leak" \in values)
    THEN "SpecError"
    ELSE "none"

\* _validate_sanitizer_variant: the exception it raises, "none" when it returns
validate_sanitizer_variant(values) ==
    IF "none" \in values /\ Cardinality(values) > 1 THEN "SpecError"
    ELSE IF "thread" \in values
            /\ ("address" \in values \/ "leak" \in values \/ "memory" \in values)
    THEN "SpecError"
    ELSE IF "memory" \in values /\ ("address" \in values \/ "leak" \in values)
    THEN "SpecError"
    ELSE "none"

\* the tuple spec.variants["sanitizer"].value lists the values in sorted order
SanitizerOrder == <<"address", "leak", "memory", "none", "thread", "undefined_behaviour">>

\* value.upper()
Upper(value) ==
    CASE value = "address" -> "ADDRESS"
      [] value = "leak" -> "LEAK"
      [] value = "memory" -> "MEMORY"
      [] value = "thread" -> "THREAD"
      [] value = "undefined_behaviour" -> "UNDEFINED_BEHAVIOUR"
      [] value = "none" -> "NONE"

RECURSIVE SanitizerFlags(_, _)
SanitizerFlags(values, order) ==
    IF order = <<>> THEN <<>>
    ELSE (IF Head(order) \in values /\ Head(order) # "none"
          THEN <<"-DENABLE_SANITIZER_" \o Upper(Head(order)) \o "=ON">>
          ELSE <<>>) \o SanitizerFlags(values, Tail(order))

Neso_cmake_args(s) ==
    <<IF s.coverage THEN "-DENABLE_COVERAGE:BOOL=ON" ELSE "-DENABLE_COVERAGE:BOOL=OFF">>
    \o SanitizerFlags(s.sanitizer, SanitizerOrder)
    \o (IF s.cwipi THEN <<"-DNESO_BUILD_CWIPI_EXAMPLES=ON">> ELSE <<>>)
    \o (IF s.libonly THEN <<"-DNESO_BUILD_SOLVERS=OFF", "-DNESO_BUILD_TESTS=OFF">>
        ELSE <<>>)

-----------------------------------------------------------------------------
(* NESO-RNG-Toolkit                                                        *)

RngSpecs == [name : {"neso-rng-toolkit"}, onemkl : BOOLEAN, curand : BOOLEAN]

\* conflicts("+onemkl", when="+curand")
RngConflicts(s) == s.onemkl /\ s.curand

RngDepends(s) ==
    {Edge("neso-rng-toolkit", "c", 0, default_deptype),
     Edge("neso-rng-toolkit", "cxx", 0, default_deptype),
     Edge("neso-rng-toolkit", "sycl", 0, {"build", "link", "run"}),
     Edge("neso-rng-toolkit", "googletest", 0, {"build", "link", "run"}),
     Edge("neso-rng-toolkit", "cmake", 0, {"build"})}
    \cup (IF s.onemkl
          THEN {Edge("neso-rng-toolkit", "dpcpp", 0, {"build", "link", "run"})} ELSE {})
    \cup (IF s.curand
          THEN {Edge("neso-rng-toolkit", "cuda", 0, {"build", "link", "run"})} ELSE {})

\* cmake_args with the platform that +curand disables mistaken
Rng_cmake_args_WrongPlatform(s) ==
    (IF s.onemkl THEN <<"-DNESO_RNG_TOOLKIT_REQUIRE_ONEMKL=ON",
                        "-DNESO_RNG_TOOLKIT_ENABLE_CURAND=OFF">> ELSE <<>>)
    \o (IF s.curand THEN <<"-DNESO_RNG_TOOLKIT_REQUIRE_CURAND=ON",
                           "-DNESO_RNG_TOOLKIT_ENABLE_CURAND=OFF">> ELSE <<>>)

Rng_cmake_args(s) ==
    (IF s.onemkl THEN <<"-DNESO_RNG_TOOLKIT_REQUIRE_ONEMKL=ON",
                        "-DNESO_RNG_TOOLKIT_ENABLE_CURAND=OFF">> ELSE <<>>)
    \o (IF s.curand THEN <<"-DNESO_RNG_TOOLKIT_REQUIRE_CURAND=ON",
                           "-DNESO_RNG_TOOLKIT_ENABLE_ONEMKL=OFF">> ELSE <<>>)

-----------------------------------------------------------------------------
(* The recipes applied to every spec: directives, then cmake_args          *)

\* the class body of Adaptivecpp: its depends_on directives for the spec
AcppDirectives ==
    /\ pkg = "adaptivecpp" /\ pc = "directives"
    /\ \E v \in {w \in NvhpcVersions : w >= nvhpc_transitive_min} :
         deps' = AcppDepends(spec, v)
                   \cup (IF AcppDependsOnNvhpcTransitive(spec)
                         THEN NvhpcTransitiveDepends(v) ELSE {})
    /\ pc' = "spec"
    /\ UNCHANGED <<pkg, spec, err, args, found, used, files, notBuild>>

\* the class body of NvhpcTransitive; the package has no phases to run
NvhpcTransitiveDirectives ==
    /\ pkg = "nvhpc-transitive" /\ pc = "directives"
    /\ deps' = NvhpcTransitiveDepends(spec.version)
    /\ pc' = IF NvhpcTransitivePhases = <<>> THEN "done" ELSE "spec"
    /\ UNCHANGED <<pkg, spec, err, args, found, used, files, notBuild>>

\* the sanitizer variant of Neso: its validator runs on the values given
NesoDirectives ==
    /\ pkg = "neso" /\ pc = "directives"
    /\ err' = validate_sanitizer_variant(spec.sanitizer)
    /\ pc' = IF err' = "none" THEN "spec" ELSE "failed"
    /\ UNCHANGED <<pkg, spec, args, found, used, files, deps, notBuild>>

NesoCmakeArgs ==
    /\ pkg = "neso" /\ pc = "spec"
    /\ args' = Neso_cmake_args(spec)
    /\ pc' = "configured"
    /\ UNCHANGED <<pkg, spec, err, found, used, files, deps, notBuild>>

\* the class body of NesoRngToolkit
RngDirectives ==
    /\ pkg = "neso-rng-toolkit" /\ pc = "directives"
    /\ deps' = RngDepends(spec)
    /\ pc' = "spec"
    /\ UNCHANGED <<pkg, spec, err, args, found, used, files, notBuild>>

RngCmakeArgs ==
    /\ pkg = "neso-rng-toolkit" /\ pc = "spec"
    /\ args' = Rng_cmake_args(spec)
    /\ pc' = "configured"
    /\ UNCHANGED <<pkg, spec, err, found, used, files, deps, notBuild>>

InitRecipes ==
    /\ NoVersions /\ NoEnv /\ NoDisk /\ NoBuild /\ NoView
    /\ pkg \in {"adaptivecpp", "nvhpc-transitive", "neso", "neso-rng-toolkit"}
    /\ spec \in CASE pkg = "adaptivecpp" -> AcppSpecs
                  [] pkg = "nvhpc-transitive" -> NvhpcTransitiveSpecs
                  [] pkg = "neso" -> NesoSpecs
                  [] pkg = "neso-rng-toolkit" -> RngSpecs
    /\ pc = "directives"
    /\ err = "none"

NextRecipes ==
    \/ AcppDirectives
    \/ AcppCmakeArgs
    \/ NvhpcTransitiveDirectives
    \/ NesoDirectives
    \/ NesoCmakeArgs
    \/ RngDirectives
    \/ RngCmakeArgs

SpecRecipes == InitRecipes /\ [][NextRecipes]_vars

-----------------------------------------------------------------------------
(* dpcpp and neso: _restrict_to_version and the version loop               *)

\* A version constraint is the string the code builds, as its sequence of
\* tokens: versions, ":" and ",".
Ver(n) == [kind |-> "version", v |-> n]
Colon == [kind |-> ":", v |-> 0]
Comma == [kind |-> ",", v |-> 0]

\* versions[i] of a Python list, i counted from 0
At(q, i) == q[i + 1]

\* _restrict_to_version with the two neighbours of the middle case exchanged
restrict_to_version_Swapped(vs, i) ==
    IF i = 0 THEN <<Colon, Ver(At(vs, 1))>>
    ELSE IF i = Len(vs) - 1 THEN <<Ver(At(vs, Len(vs) - 2)), Colon>>
    ELSE <<Colon, Ver(At(vs, i - 1)), Comma, Ver(At(vs, i + 1)), Colon>>

\* _restrict_to_version(versions, idx)
restrict_to_version(vs, i) ==
    IF i = 0 THEN <<Colon, Ver(At(vs, 1))>>
    ELSE IF i = Len(vs) - 1 THEN <<Ver(At(vs, Len(vs) - 2)), Colon>>
    ELSE <<Colon, Ver(At(vs, i + 1)), Comma, Ver(At(vs, i - 1)), Colon>>

\* the position of the first "," of a constraint, 0 when it has none
FirstComma(c) ==
    IF \E k \in 1..Len(c) : c[k] = Comma
    THEN CHOOSE k \in 1..Len(c) : c[k] = Comma /\ \A j \in 1..(k - 1) : c[j] # Comma
    ELSE 0

\* version w lies in one range "lo:hi", either end of which may be missing
InRange(w, rg) ==
    CASE Len(rg) = 1 -> rg[1].kind = "version" /\ w = rg[1].v
      [] Len(rg) = 2 /\ rg[1] = Colon -> w <= rg[2].v
      [] Len(rg) = 2 /\ rg[2] = Colon -> w >= rg[1].v
      [] Len(rg) = 3 -> rg[1].v <= w /\ w <= rg[3].v
      [] OTHER -> FALSE

\* a spec at version w satisfies "@" + c: w lies in one of the ranges of c
RECURSIVE Satisfies(_, _)
Satisfies(w, c) ==
    LET k == FirstComma(c)
    IN  IF k = 0 THEN InRange(w, c)
        ELSE InRange(w, SubSeq(c, 1, k - 1)) \/ Satisfies(w, SubSeq(c, k + 1, Len(c)))

\* the lists of distinct versions in descending order, two or more
VersionLists ==
    {q \in UNION {[1..n -> 1..MaxVersion] : n \in 2..MaxVersions} :
        \A k \in 1..(Len(q) - 1) : q[k] > q[k + 1]}

\* one call of _restrict_to_version (the same function in both recipes)
RestrictToVersion ==
    /\ pkg \in {"dpcpp", "neso"} /\ pc = "versions"
    /\ constraint' = restrict_to_version(versions, idx)
    /\ pc' = "restricted"
    /\ UNCHANGED <<pkg, spec, err, versions, idx, conflicts, buildVars, envVars, disk, view>>

\* the loop over available_versions in the class body of Dpcpp: a conflict
\* with "%oneapi@" + _restrict_to_version(...) for each version
DpcppVersionLoop ==
    /\ pkg = "dpcpp" /\ pc = "restricted"
    /\ conflicts' = {[when |-> At(versions, i), on |-> "%oneapi",
                      at |-> restrict_to_version(versions, i)] :
                        i \in 0..(Len(versions) - 1)}
    /\ deps' = {Edge("dpcpp", "intel-oneapi-compilers", At(versions, i),
                     {"build", "link", "run"}) : i \in 0..(Len(versions) - 1)}
    /\ pc' = "declared"
    /\ UNCHANGED <<pkg, spec, err, versions, idx, constraint,
                   args, found, used, files, rerun, envVars, disk, view>>

\* the loop over AVAILABLE_ONEAPI_VERSIONS in the class body of Neso: for
\* each compiler version a conflict with "^intel-oneapi-mkl@" +
\* _restrict_to_version(...)
NesoMklLoop ==
    /\ pkg = "neso" /\ pc = "restricted"
    /\ conflicts' = {[when |-> At(versions, i), on |-> "^intel-oneapi-mkl",
                      at |-> restrict_to_version(versions, i)] :
                        i \in 0..(Len(versions) - 1)}
    /\ pc' = "declared"
    /\ UNCHANGED <<pkg, spec, err, versions, idx, constraint, buildVars, envVars, disk, view>>

\* dpcpp at version v conflicts with the oneAPI compilers at version w
DpcppConflict(v, w) ==
    \E c \in conflicts : c.on = "%oneapi" /\ c.when = v /\ Satisfies(w, c.at)

\* neso built with the oneAPI compilers at version v conflicts with MKL at w
NesoMklConflict(v, w) ==
    \E c \in conflicts : c.on = "^intel-oneapi-mkl" /\ c.when = v /\ Satisfies(w, c.at)

InitVersions ==
    /\ NoBuild /\ NoEnv /\ NoDisk /\ NoView
    /\ pkg \in {"dpcpp", "neso"}
    /\ spec = [name |-> pkg]
    /\ pc = "versions"
    /\ err = "none"
    /\ versions \in VersionLists
    /\ idx \in 0..(Len(versions) - 1)
    /\ constraint = <<>>
    /\ conflicts = {}

NextVersions ==
    \/ RestrictToVersion
    \/ DpcppVersionLoop
    \/ NesoMklLoop

SpecVersions == InitVersions /\ [][NextVersions]_vars

-----------------------------------------------------------------------------
(* dpcpp: the environment hooks                                            *)

\* A path is the sequence of its components; the value of an environment
\* variable is the list of the paths it holds.

Parent(p) == SubSeq(p, 1, Len(p) - 1)

oneapi_root(s) == s.oneapi_prefix

compiler_dir(s) == oneapi_root(s) \o <<"compiler", "latest", "bin">>

oneapi_tbb_root(s) == oneapi_root(s) \o <<"tbb", "latest">>

\* _library_paths with the first two directories exchanged
library_paths_Reordered(s) ==
    <<Parent(compiler_dir(s)) \o <<"lib", "x64">>,
      Parent(compiler_dir(s)) \o <<"lib">>,
      Parent(compiler_dir(s)) \o <<"compiler", "lib", "intel64_lin">>,
      Parent(compiler_dir(s)) \o <<"compiler", "lib">>>>

library_paths(s) ==
    <<Parent(compiler_dir(s)) \o <<"lib">>,
      Parent(compiler_dir(s)) \o <<"lib", "x64">>,
      Parent(compiler_dir(s)) \o <<"compiler", "lib", "intel64_lin">>,
      Parent(compiler_dir(s)) \o <<"compiler", "lib">>>>

\* env.set(name, value)
EnvSet(e, name, value) == (name :> <<value>>) @@ e

Entries(e, name) == IF name \in DOMAIN e THEN e[name] ELSE <<>>

\* env.append_path(name, value)
AppendPath(e, name, value) == (name :> Append(Entries(e, name), value)) @@ e

\* env.prepend_path(name, value)
PrependPath(e, name, value) == (name :> <<value>> \o Entries(e, name)) @@ e

\* the loop over _library_paths()
RECURSIVE LibraryPathLoop(_, _)
LibraryPathLoop(e, paths) ==
    IF paths = <<>> THEN e
    ELSE LibraryPathLoop(
            AppendPath(AppendPath(e, "LD_LIBRARY_PATH", Head(paths)),
                       "LIBRARY_PATH", Head(paths)),
            Tail(paths))

SyclHintVars == <<"SYCL_INCLUDE_DIR_HINT", "SYCL_LIBRARY_DIR_HINT">>

\* `var in env`: env is Spack's EnvironmentModifications, whose membership
\* test is not part of this repository; it either tells whether the
\* variable has been given a value (by_name) or finds no string among the
\* recorded modifications
InEnv(e, var, by_name) == by_name /\ var \in DOMAIN e

\* the two hints appended to the variable on every call
SyclHints_Appended(e, s, by_name) ==
    AppendPath(AppendPath(e, SyclHintVars[1], Parent(compiler_dir(s))),
               SyclHintVars[2], Parent(compiler_dir(s)))

\* the loop over the two hint variables: set when not in env
SyclHints(e, s, by_name) ==
    LET e1 == IF ~InEnv(e, SyclHintVars[1], by_name)
              THEN EnvSet(e, SyclHintVars[1], Parent(compiler_dir(s))) ELSE e
    IN  IF ~InEnv(e1, SyclHintVars[2], by_name)
        THEN EnvSet(e1, SyclHintVars[2], Parent(compiler_dir(s))) ELSE e1

setup_common_dependent_environment(e, s, by_name) ==
    LET tbb_library_path == oneapi_tbb_root(s) \o <<"lib", "intel64", "gcc4.8">>
        e1 == EnvSet(e, "ONEAPI_ROOT", oneapi_root(s))
        e2 == AppendPath(e1, "PATH", compiler_dir(s))
        e3 == LibraryPathLoop(e2, library_paths(s))
        e4 == PrependPath(e3, "PKG_CONFIG_PATH",
                          Parent(Parent(compiler_dir(s))) \o <<"lib", "pkgconfig">>)
        e5 == SyclHints(e4, s, by_name)
        e6 == AppendPath(e5, "OCL_ICD_FILENAMES",
                         Parent(compiler_dir(s)) \o <<"lib", "libintelocl.so">>)
        e7 == EnvSet(e6, "TBBROOT", oneapi_tbb_root(s))
        e8 == AppendPath(e7, "LD_LIBRARY_PATH", tbb_library_path)
        e9 == AppendPath(e8, "LIBRARY_PATH", tbb_library_path)
        e10 == AppendPath(e9, "C_INCLUDE_PATH", oneapi_tbb_root(s) \o <<"include">>)
        e11 == AppendPath(e10, "CPLUS_INCLUDE_PATH", oneapi_tbb_root(s) \o <<"include">>)
        e12 == AppendPath(e11, "CMAKE_PREFIX_PATH", oneapi_tbb_root(s))
    IN  AppendPath(e12, "PKG_CONFIG_PATH", oneapi_tbb_root(s) \o <<"lib", "pkgconfig">>)

\* a hook run on the environment
Hook(name) ==
    /\ pkg = "dpcpp" /\ pc \in {"env", "setup_dependent_build_environment",
                                "setup_dependent_run_environment",
                                "setup_run_environment"}
    /\ calls < MaxCalls
    /\ \E by_name \in BOOLEAN :
          env' = setup_common_dependent_environment(env, spec, by_name)
    /\ calls' = calls + 1
    /\ pc' = name
    /\ UNCHANGED <<pkg, spec, err, buildVars, versionVars, disk, view>>

SetupDependentBuildEnvironment == Hook("setup_dependent_build_environment")

SetupDependentRunEnvironment == Hook("setup_dependent_run_environment")

SetupRunEnvironment == Hook("setup_run_environment")

\* the entries other packages put in the environment before dpcpp's hooks
EarlierEntries ==
    {[v \in vs |-> <<<<"usr", "local", v>>>>] :
        vs \in SUBSET {"LD_LIBRARY_PATH", "LIBRARY_PATH", "PKG_CONFIG_PATH", "PATH"}}

InitDpcpp ==
    /\ NoBuild /\ NoVersions /\ NoDisk /\ NoView
    /\ pkg = "dpcpp"
    /\ spec \in [name : {"dpcpp"},
                 oneapi_prefix : {<<"opt", "intel", "oneapi">>,
                                  <<"spack", "intel-oneapi-compilers">>}]
    /\ pc = "env"
    /\ err = "none"
    /\ env \in EarlierEntries
    /\ calls = 0

NextDpcpp ==
    \/ SetupDependentBuildEnvironment
    \/ SetupDependentRunEnvironment
    \/ SetupRunEnvironment

SpecDpcpp == InitDpcpp /\ [][NextDpcpp]_vars

-----------------------------------------------------------------------------
(* py-hypnotoad: temporarily_replace_setuptools                            *)

HypnotoadSpecs ==
    [name : {"py-hypnotoad"}, gui : BOOLEAN,
     python : {"3.9", "3.10", "3.11"},
     setuptools : {"setuptools-59.4.0", "setuptools-63.4.3"}]

\* spec.prefix.lib.join("python{}".format(...)).join("site-packages")
setuptools_dir(s) == "lib/python" \o s.python \o "/site-packages"

\* disk.site: what is at setuptools_dir ("absent" when nothing is);
\* disk.tmp: what is in the temporary directory ("none" when the directory
\* does not exist, "empty" when it holds nothing);
\* disk.pip_setuptools: the replacement setuptools is installed;
\* disk.package, disk.gui_script: what the wrapped installation wrote

\* a step of install() runs: only this variable and the position change
DiskStep(d, next, e) ==
    /\ disk' = d /\ pc' = next /\ err' = e
    /\ UNCHANGED <<pkg, spec, buildVars, versionVars, envVars, view>>

\* with TemporaryDirectory() as dirname
EnterTemporaryDirectory ==
    /\ pkg = "py-hypnotoad" /\ pc = "install"
    /\ DiskStep([disk EXCEPT !.tmp = "empty"], "move_out", err)

\* shutil.move(setuptools_dir, setup_tmp_dir)
MoveOut ==
    /\ pkg = "py-hypnotoad" /\ pc = "move_out"
    /\ DiskStep([disk EXCEPT !.tmp = disk.site, !.site = "absent"], "pip_install", err)

\* pip("install", "setuptools" + version_requirement), before the try: when
\* it raises the with block is left without running the finally clause
PipInstall ==
    /\ pkg = "py-hypnotoad" /\ pc = "pip_install"
    /\ \/ DiskStep([disk EXCEPT !.pip_setuptools = TRUE], "yield", err)
       \/ DiskStep(disk, "exit", "ProcessError")

\* the body of the with statement: super().install(pkg, spec, prefix); the
\* finally clause runs whether it raises or not
WrappedInstall ==
    /\ pkg = "py-hypnotoad" /\ pc = "yield"
    /\ \/ DiskStep([disk EXCEPT !.package = TRUE, !.gui_script = TRUE],
                   "pip_uninstall", err)
       \/ DiskStep(disk, "pip_uninstall", "ProcessError")

\* finally: pip("--no-input", "uninstall", "-y", "setuptools"); when it
\* raises the move that follows is skipped
PipUninstall ==
    /\ pkg = "py-hypnotoad" /\ pc = "pip_uninstall"
    /\ \/ DiskStep([disk EXCEPT !.pip_setuptools = FALSE], "move_back", err)
       \/ DiskStep(disk, "exit", "ProcessError")

\* finally: shutil.move(setup_tmp_dir, setuptools_dir)
MoveBack ==
    /\ pkg = "py-hypnotoad" /\ pc = "move_back"
    /\ DiskStep([disk EXCEPT !.site = disk.tmp, !.tmp = "empty"], "exit", err)

\* leaving `with TemporaryDirectory()`: the directory is removed with all it
\* holds, and the context manager is left
ExitTemporaryDirectory ==
    /\ pkg = "py-hypnotoad" /\ pc = "exit"
    /\ DiskStep([disk EXCEPT !.tmp = "none"], "left", err)

\* the rest of install(): the GUI script is removed for ~gui
RemoveGui ==
    /\ pkg = "py-hypnotoad" /\ pc = "left" /\ err = "none"
    /\ DiskStep([disk EXCEPT !.gui_script = IF spec.gui THEN @ ELSE FALSE], "done", err)

InitHypnotoad ==
    /\ NoBuild /\ NoVersions /\ NoEnv /\ NoView
    /\ pkg = "py-hypnotoad"
    /\ spec \in HypnotoadSpecs
    /\ pc = "install"
    /\ err = "none"
    /\ disk = [dir |-> setuptools_dir(spec), site |-> spec.setuptools, tmp |-> "none",
               pip_setuptools |-> FALSE, package |-> FALSE, gui_script |-> FALSE]

NextHypnotoad ==
    \/ EnterTemporaryDirectory
    \/ MoveOut
    \/ PipInstall
    \/ WrappedInstall
    \/ PipUninstall
    \/ MoveBack
    \/ ExitTemporaryDirectory
    \/ RemoveGui

SpecHypnotoad == InitHypnotoad /\ [][NextHypnotoad]_vars

-----------------------------------------------------------------------------
(* nektar: directives and cmake_args                                       *)

\* the packages that can provide blas and lapack
BlasProviders == {"openblas", "intel-oneapi-mkl", "netlib-lapack"}

NektarVariants ==
    {"mpi", "fftw", "arpack", "tinyxml", "hdf5", "scotch", "demos", "solvers", "python"}

\* a spec of nektar: its variants, and the providers the concretizer chose
NektarSpecs ==
    [name : {"nektar"},
     mpi : BOOLEAN, fftw : BOOLEAN, arpack : BOOLEAN, tinyxml : BOOLEAN,
     hdf5 : BOOLEAN, scotch : BOOLEAN, demos : BOOLEAN, solvers : BOOLEAN,
     python : BOOLEAN, darwin : BOOLEAN, blas : BlasProviders, lapack : BlasProviders]

\* conflicts("+hdf5", when="~mpi")
NektarConflicts(s) == s.hdf5 /\ ~s.mpi

NektarEdge(to, type) == Edge("nektar", to, 0, type)

\* the depends_on directives whose when= condition the spec satisfies
NektarDepends(s) ==
    {NektarEdge("cmake", {"build"}),
     NektarEdge(s.blas, default_deptype),
     NektarEdge(s.lapack, default_deptype),
     NektarEdge("boost", default_deptype)}
    \cup (IF s.tinyxml \/ s.darwin THEN {NektarEdge("tinyxml", default_deptype)} ELSE {})
    \cup (IF s.mpi THEN {NektarEdge("mpi", {"build", "link", "run"})} ELSE {})
    \cup (IF s.fftw THEN {NektarEdge("fftw", default_deptype)} ELSE {})
    \cup (IF s.arpack THEN {NektarEdge("arpack-ng", default_deptype)} ELSE {})
    \cup (IF s.mpi /\ s.hdf5 THEN {NektarEdge("hdf5", default_deptype)} ELSE {})
    \cup (IF s.scotch THEN {NektarEdge("scotch", default_deptype)} ELSE {})
    \cup (IF s.python THEN {NektarEdge("python", {"build", "link", "run"})} ELSE {})

\* hasfeature: `feature in self.spec`, for a variant "+name" and for a
\* dependency "^name" (E: the edges of the concrete spec)
hasfeature(feature, s, E) ==
    IF feature[1] = "+"
    THEN IF s[feature[2]] THEN "ON" ELSE "OFF"
    ELSE IF feature[2] \in Reach(E, {"nektar"}, {"build", "link", "run"})
         THEN "ON" ELSE "OFF"

\* cmake_args with the two blas flags reading each other's dependency
Nektar_cmake_args_BlasSwapped(s, E) ==
    <<"-DNEKTAR_BUILD_DEMOS=" \o hasfeature(<<"+", "demos">>, s, E),
      "-DNEKTAR_BUILD_SOLVERS=" \o hasfeature(<<"+", "solvers">>, s, E),
      "-DNEKTAR_USE_MPI=" \o hasfeature(<<"+", "mpi">>, s, E),
      "-DNEKTAR_USE_FFTW=" \o hasfeature(<<"+", "fftw">>, s, E),
      "-DNEKTAR_USE_ARPACK=" \o hasfeature(<<"+", "arpack">>, s, E),
      "-DNEKTAR_USE_HDF5=" \o hasfeature(<<"+", "hdf5">>, s, E),
      "-DNEKTAR_USE_SCOTCH=" \o hasfeature(<<"+", "scotch">>, s, E),
      "-DNEKTAR_USE_PETSC=OFF",
      "-DNEKTAR_ERROR_ON_WARNINGS=OFF",
      "-DNEKTAR_USE_MKL=" \o hasfeature(<<"^", "openblas">>, s, E),
      "-DNEKTAR_USE_OPENBLAS=" \o hasfeature(<<"^", "intel-oneapi-mkl">>, s, E),
      "-DNEKTAR_BUILD_PYTHON=" \o hasfeature(<<"+", "python">>, s, E),
      "-DNEKTAR_BUILD_UTILITIES=ON",
      "-DNEKTAR_USE_THREAD_SAFETY=ON">>

Nektar_cmake_args(s, E) ==
    <<"-DNEKTAR_BUILD_DEMOS=" \o hasfeature(<<"+", "demos">>, s, E),
      "-DNEKTAR_BUILD_SOLVERS=" \o hasfeature(<<"+", "solvers">>, s, E),
      "-DNEKTAR_USE_MPI=" \o hasfeature(<<"+", "mpi">>, s, E),
      "-DNEKTAR_USE_FFTW=" \o hasfeature(<<"+", "fftw">>, s, E),
      "-DNEKTAR_USE_ARPACK=" \o hasfeature(<<"+", "arpack">>, s, E),
      "-DNEKTAR_USE_HDF5=" \o hasfeature(<<"+", "hdf5">>, s, E),
      "-DNEKTAR_USE_SCOTCH=" \o hasfeature(<<"+", "scotch">>, s, E),
      "-DNEKTAR_USE_PETSC=OFF",
      "-DNEKTAR_ERROR_ON_WARNINGS=OFF",
      "-DNEKTAR_USE_MKL=" \o hasfeature(<<"^", "intel-oneapi-mkl">>, s, E),
      "-DNEKTAR_USE_OPENBLAS=" \o hasfeature(<<"^", "openblas">>, s, E),
      "-DNEKTAR_BUILD_PYTHON=" \o hasfeature(<<"+", "python">>, s, E),
      "-DNEKTAR_BUILD_UTILITIES=ON",
      "-DNEKTAR_USE_THREAD_SAFETY=ON">>

\* the class body of Nektar: a spec the conflict rejects goes no further
NektarDirectives ==
    /\ pkg = "nektar" /\ pc = "directives"
    /\ deps' = NektarDepends(spec)
    /\ err' = IF NektarConflicts(spec) THEN "ConflictsInSpecError" ELSE "none"
    /\ pc' = IF NektarConflicts(spec) THEN "failed" ELSE "spec"
    /\ UNCHANGED <<pkg, spec, args, found, used, files, notBuild>>

NektarCmakeArgs ==
    /\ pkg = "nektar" /\ pc = "spec"
    /\ args' = Nektar_cmake_args(spec, deps)
    /\ pc' = "configured"
    /\ UNCHANGED <<pkg, spec, err, found, used, files, deps, notBuild>>

InitNektar ==
    /\ NoVersions /\ NoEnv /\ NoDisk /\ NoBuild /\ NoView
    /\ pkg = "nektar"
    /\ spec \in NektarSpecs
    /\ pc = "directives"
    /\ err = "none"

NextNektar ==
    \/ NektarDirectives
    \/ NektarCmakeArgs

SpecNektar == InitNektar /\ [][NextNektar]_vars

-----------------------------------------------------------------------------
(* stdpython: the post-install symlink step                                *)

\* The files under the prefix are a function from paths (sequences of
\* components, relative to the prefix) to nodes.
DirNode == [kind |-> "dir", target |-> <<>>]
FileNode == [kind |-> "file", target |-> <<>>]
LinkNode(target) == [kind |-> "link", target |-> target]

\* os.path.join(p, name)
join(p, name) == Append(p, name)

\* os.path.isdir
isdir(fs, p) == p \in DOMAIN fs /\ fs[p].kind = "dir"

\* os.listdir
listdir(fs, p) == {q[Len(q)] : q \in {r \in DOMAIN fs : Len(r) = Len(p) + 1 /\ Parent(r) = p}}

\* mkdirp: the directory and every missing ancestor
mkdirp(fs, p) ==
    [q \in DOMAIN fs \cup {SubSeq(p, 1, k) : k \in 1..Len(p)} |->
        IF q \in DOMAIN fs THEN fs[q] ELSE DirNode]

\* os.symlink(target, link) for each pair of the set links, none existing
symlinks(fs, links) ==
    [q \in DOMAIN fs \cup {l.link : l \in links} |->
        IF q \in DOMAIN fs THEN fs[q]
        ELSE LinkNode((CHOOSE l \in links : l.link = q).target)]

\* the versions of python a spec can ask for
PythonVersions == {<<2, 7, 18>>, <<3, 8, 12>>, <<3, 9, 7>>}

Digit(n) == CASE n = 2 -> "2" [] n = 3 -> "3" [] n = 7 -> "7" [] n = 8 -> "8"
              [] n = 9 -> "9" [] n = 12 -> "12" [] n = 18 -> "18"

\* 'python{0}'.format(self.version.up_to(2))
python_dir(v) == "python" \o Digit(v[1]) \o "." \o Digit(v[2])

StdpythonSpecs == [name : {"stdpython"}, version : PythonVersions, pythoncmd : BOOLEAN]

\* the lib-dynload part of symlink with the test of dst left out
symlink_dynload_NoDstTest(s, fs) ==
    LET src == <<"lib64", python_dir(s.version), "lib-dynload">>
        dst == <<"lib", python_dir(s.version), "lib-dynload">>
    IN  IF isdir(fs, src)
        THEN symlinks(mkdirp(fs, dst),
                      {[target |-> join(src, f), link |-> join(dst, f)] :
                          f \in {g \in listdir(fs, src) : join(dst, g) \notin DOMAIN fs}})
        ELSE fs

\* the lib-dynload part of symlink
symlink_dynload(s, fs) ==
    LET src == <<"lib64", python_dir(s.version), "lib-dynload">>
        dst == <<"lib", python_dir(s.version), "lib-dynload">>
    IN  IF isdir(fs, src) /\ ~isdir(fs, dst)
        THEN symlinks(mkdirp(fs, dst),
                      {[target |-> join(src, f), link |-> join(dst, f)] :
                          f \in listdir(fs, src)})
        ELSE fs

\* the links of the part of symlink for spec.satisfies('@3:') and +pythoncmd
PythonCmdLinks ==
    {[target |-> <<"bin", "python3">>, link |-> <<"bin", "python">>],
     [target |-> <<"bin", "python3-config">>, link |-> <<"bin", "python-config">>]}

\* Stdpython.symlink: the files after the step and the exception raised
\* (os.symlink raises FileExistsError when the link name is taken)
Stdpython_symlink(s, fs) ==
    LET fs1 == symlink_dynload(s, fs)
    IN  IF s.version[1] >= 3 /\ s.pythoncmd
        THEN IF \E l \in PythonCmdLinks : l.link \in DOMAIN fs1
             THEN [fs |-> fs1, err |-> "FileExistsError"]
             ELSE [fs |-> symlinks(fs1, PythonCmdLinks), err |-> "none"]
        ELSE [fs |-> fs1, err |-> "none"]

\* the modules a build puts in lib-dynload
DynloadNames == {"math.so", "_ssl.so"}

\* a directory at path p holding the files named in names, its ancestors too
DirWith(p, names) ==
    [q \in {SubSeq(p, 1, k) : k \in 1..Len(p)} \cup {join(p, n) : n \in names} |->
        IF Len(q) <= Len(p) THEN DirNode ELSE FileNode]

\* what the install phase leaves in bin
InstalledBin(s) ==
    [q \in {<<"bin">>} \cup
           {<<"bin", n>> : n \in IF s.version[1] >= 3
                                 THEN {"python3", "python3-config"}
                                 ELSE {"python", "python-config", "python2"}} |->
        IF Len(q) = 1 THEN DirNode ELSE FileNode]

\* what the install phase leaves under the prefix: bin, and the modules in
\* lib64 or in lib (or in both, or in neither)
StdpythonInstalled(s) ==
    {InstalledBin(s) @@ a @@ b :
        a \in {EmptyMap} \cup
              {DirWith(<<"lib64", python_dir(s.version), "lib-dynload">>, ns) :
                  ns \in SUBSET DynloadNames},
        b \in {EmptyMap, DirWith(<<"lib", python_dir(s.version)>>, {"os.py"})} \cup
              {DirWith(<<"lib", python_dir(s.version), "lib-dynload">>, ns) :
                  ns \in SUBSET DynloadNames}}

\* run_after('install') symlink
StdpythonSymlink ==
    /\ pkg = "stdpython" /\ pc = "installed"
    /\ LET o == Stdpython_symlink(spec, disk)
       IN  /\ disk' = o.fs
           /\ err' = o.err
           /\ pc' = IF o.err = "none" THEN "done" ELSE "failed"
    /\ UNCHANGED <<pkg, spec, buildVars, versionVars, envVars, view>>

InitSymlink ==
    /\ NoBuild /\ NoVersions /\ NoEnv /\ NoView
    /\ pkg = "stdpython"
    /\ spec \in StdpythonSpecs
    /\ pc = "installed"
    /\ err = "none"
    /\ disk \in StdpythonInstalled(spec)

NextSymlink == StdpythonSymlink

SpecSymlink == InitSymlink /\ [][NextSymlink]_vars

-----------------------------------------------------------------------------
(* stdpython: activating and deactivating extensions in a view             *)

\* A line of an easy-install.pth file is its text, a sequence of tokens,
\* and the blanks that end it before the newline; a file is the list of its
\* lines, or does not exist.
Line(text, ws) == [text |-> text, ws |-> ws]

NoFile == [exists |-> FALSE, lines |-> <<>>]

File(lines) == [exists |-> TRUE, lines |-> lines]

\* line.rstrip()
rstrip(line) == line.text

\* re.search(r'^(import|#)', line)
SearchImportOrHash(line) == line # <<>> /\ line[1] \in {"import", "#"}

\* re.search(r'setuptools.*egg$', line)
SearchSetuptoolsEgg(line) ==
    \E i \in 1..(Len(line) - 1) : line[i] = "setuptools" /\ line[Len(line)] = ".egg"

\* the longest easy-install.pth file of an extension
MaxLines == 2

\* the extensions of the model, in ascending order of their specs
ExtNames == <<"py-setuptools", "py-six">>

ExtSpec(n) == [name |-> n]

SetuptoolsEggLine == <<"./", "setuptools", "-57.4.0-py3.9", ".egg">>

\* the lines an extension's easy-install.pth can hold
ExtLines(n) ==
    IF n = "py-setuptools"
    THEN {Line(<<>>, "  "),
          Line(<<"import", " sys; sys.__plen = len(sys.path)">>, ""),
          Line(SetuptoolsEggLine, ""),
          Line(<<"./", "six-1.16.0", ".egg">>, " ")}
    ELSE {Line(<<"#", " eggs">>, ""),
          Line(SetuptoolsEggLine, ""),
          Line(<<"./", "six-1.16.0", ".egg">>, ""),
          Line(<<"./", "six_extras">>, "")}

\* the easy-install.pth an extension can have in its prefix
ExtFiles(n) ==
    {NoFile} \cup {File(q) : q \in UNION {[1..k -> ExtLines(n)] : k \in 0..MaxLines}}

\* the loop over the lines of one file, with the test `line not in
\* unique_paths` left out
MergeLines_NotUnique(lines, name, paths) ==
    LET keep[k \in 0..Len(lines)] ==
          IF k = 0 THEN paths
          ELSE LET line == rstrip(lines[k])
               IN  IF line = <<>> THEN keep[k - 1]
                   ELSE IF SearchImportOrHash(line) THEN keep[k - 1]
                   ELSE IF name # "py-setuptools" /\ SearchSetuptoolsEgg(line)
                   THEN keep[k - 1]
                   ELSE Append(keep[k - 1], line)
    IN  keep[Len(lines)]

\* the loop over the lines of one file: paths with the new lines kept
MergeLines(lines, name, paths) ==
    LET keep[k \in 0..Len(lines)] ==
          IF k = 0 THEN paths
          ELSE LET line == rstrip(lines[k])
               IN  IF line = <<>> THEN keep[k - 1]
                   ELSE IF SearchImportOrHash(line) THEN keep[k - 1]
                   ELSE IF name # "py-setuptools" /\ SearchSetuptoolsEgg(line)
                   THEN keep[k - 1]
                   ELSE IF line \notin Range(keep[k - 1])
                   THEN Append(keep[k - 1], line)
                   ELSE keep[k - 1]
    IN  keep[Len(lines)]

\* sorted(exts.values()): specs compare by name first
sorted_values(exts) ==
    LET pick[k \in 0..Len(ExtNames)] ==
          IF k = 0 THEN <<>>
          ELSE IF ExtNames[k] \in DOMAIN exts
               THEN Append(pick[k - 1], exts[ExtNames[k]])
               ELSE pick[k - 1]
    IN  pick[Len(ExtNames)]

\* the loop over the extensions; one without an easy-install.pth is skipped
MergeExts(exts, ext_pth) ==
    LET order == sorted_values(exts)
        merged[k \in 0..Len(order)] ==
          IF k = 0 THEN <<>>
          ELSE IF ~ext_pth[order[k].name].exists THEN merged[k - 1]
               ELSE MergeLines(ext_pth[order[k].name].lines, order[k].name, merged[k - 1])
    IN  merged[Len(order)]

PthHeader == <<"import", " sys; sys.__plen = len(sys.path)">>

PthFooter ==
    <<"import", " sys; new=sys.path[sys.__plen:]; del sys.path[sys.__plen:]; ",
      "p=getattr(sys,'__egginsert',0); sys.path[p:p]=new; sys.__egginsert = p+len(new)">>

\* write_easy_install_pth: the merged file in the view afterwards
write_easy_install_pth(exts, ext_pth, main_pth) ==
    LET paths == MergeExts(exts, ext_pth)
    IN  IF paths = <<>>
        THEN IF main_pth.exists THEN NoFile ELSE main_pth
        ELSE File(<<PthHeader>> \o paths \o <<PthFooter>>)

Without(exts, n) == [m \in DOMAIN exts \ {n} |-> exts[m]]

Did(op, n, wrote) == [op |-> op, name |-> n, wrote |-> wrote]

\* super(Python, self): the name Python is not defined in the recipe's
\* module; the call either resolves in the namespace Spack gives the module
\* (super_ok) or raises NameError, before the extension map is read
Stdpython_activate(v, n, super_ok) ==
    IF ~super_ok
    THEN [view |-> [v EXCEPT !.last = Did("activate", n, FALSE)], err |-> "NameError"]
    ELSE LET exts == (n :> ExtSpec(n)) @@ v.exts
         IN  [view |-> [v EXCEPT !.exts = exts,
                                 !.pth = write_easy_install_pth(exts, v.ext_pth, v.pth),
                                 !.last = Did("activate", n, TRUE)],
              err |-> "none"]

\* deactivate with `del exts[ext_pkg.name]` not guarded
Stdpython_deactivate_Unguarded(v, n, super_ok) ==
    IF ~super_ok
    THEN [view |-> [v EXCEPT !.last = Did("deactivate", n, FALSE)], err |-> "NameError"]
    ELSE IF n \notin DOMAIN v.exts
    THEN [view |-> [v EXCEPT !.last = Did("deactivate", n, FALSE)], err |-> "KeyError"]
    ELSE [view |-> [v EXCEPT !.exts = Without(v.exts, n),
                             !.pth = write_easy_install_pth(Without(v.exts, n),
                                                            v.ext_pth, v.pth),
                             !.last = Did("deactivate", n, TRUE)],
          err |-> "none"]

Stdpython_deactivate(v, n, super_ok) ==
    IF ~super_ok
    THEN [view |-> [v EXCEPT !.last = Did("deactivate", n, FALSE)], err |-> "NameError"]
    ELSE IF n \in DOMAIN v.exts
    THEN [view |-> [v EXCEPT !.exts = Without(v.exts, n),
                             !.pth = write_easy_install_pth(Without(v.exts, n),
                                                            v.ext_pth, v.pth),
                             !.last = Did("deactivate", n, TRUE)],
          err |-> "none"]
    ELSE [view |-> [v EXCEPT !.last = Did("deactivate", n, FALSE)], err |-> "none"]

ViewStep(o, next) ==
    /\ view' = o.view
    /\ err' = o.err
    /\ pc' = IF o.err = "none" THEN next ELSE "failed"
    /\ UNCHANGED <<pkg, spec, buildVars, versionVars, envVars, disk>>

Activate ==
    /\ pkg = "stdpython" /\ pc \in {"view", "activated", "deactivated", "failed"}
    /\ \E n \in Range(ExtNames), super_ok \in BOOLEAN :
         ViewStep(Stdpython_activate(view, n, super_ok), "activated")

Deactivate ==
    /\ pkg = "stdpython" /\ pc \in {"view", "activated", "deactivated", "failed"}
    /\ \E n \in Range(ExtNames), super_ok \in BOOLEAN :
         ViewStep(Stdpython_deactivate(view, n, super_ok), "deactivated")

\* a new view: no extension activated, no merged file
InitExtensions ==
    /\ NoBuild /\ NoVersions /\ NoEnv /\ NoDisk
    /\ pkg = "stdpython"
    /\ spec \in {s \in StdpythonSpecs : s.version = <<3, 9, 7>> /\ s.pythoncmd}
    /\ pc = "view"
    /\ err = "none"
    /\ \E fs \in [Range(ExtNames) -> UNION {ExtFiles(n) : n \in Range(ExtNames)}] :
         /\ \A n \in Range(ExtNames) : fs[n] \in ExtFiles(n)
         /\ view = [exts |-> EmptyMap, pth |-> NoFile, ext_pth |-> fs,
                    last |-> Did("none", "", FALSE)]

NextExtensions ==
    \/ Activate
    \/ Deactivate

SpecExtensions == InitExtensions /\ [][NextExtensions]_vars

-----------------------------------------------------------------------------
(* Claims about the installation of the SYCL recipes                       *)

\* the searches whose result the recipes check to be unique
CheckedSearches ==
    {"LLVMExports.cmake", "__clang_cuda_runtime_wrapper.h", "syclcc.json",
     "acpp-core.json", "libc++.so", "libc++abi.so"}

\* C1 as stated: every search made ends in an InstallError when it returned
\* zero matches or more than one, and its result is used only when unique.
C1_EverySearchUnique ==
    \A n \in DOMAIN found :
        /\ Len(found[n]) # 1 => (pc = "failed" /\ err = "InstallError")
        /\ n \in DOMAIN used => found[n] = <<used[n]>>

\* C1 amended: the searches for LLVMExports.cmake, the clang header, the
\* main config file, libc++.so and libc++abi.so end in an InstallError unless
\* they return exactly one match, which is the one used.  The glob for nvc++
\* ends in an InstallError only on zero matches; the search for acpp-cuda.json
\* is never an error; the search for libomp.so ends in an IndexError on zero
\* matches.  Those three use the first match of several.
C1_CheckedSearchesUnique ==
    \A n \in DOMAIN found :
        /\ n \in CheckedSearches =>
              /\ Len(found[n]) # 1 => (pc = "failed" /\ err = "InstallError")
              /\ n \in DOMAIN used => found[n] = <<used[n]>>
        /\ n \notin CheckedSearches =>
              /\ n \in DOMAIN used <=> Len(found[n]) >= 1
              /\ n \in DOMAIN used => used[n] = found[n][1]
              /\ (n = "nvc++" /\ Len(found[n]) = 0) =>
                     (pc = "failed" /\ err = "InstallError")
              /\ (n = "libomp.so" /\ Len(found[n]) = 0) =>
                     (pc = "failed" /\ err = "IndexError")

\* C1 witness: a checked search returned two matches and the install failed,
\* after an unchecked search (acpp-cuda.json) returned none.
C1_Witness ==
    /\ pc = "failed" /\ err = "InstallError"
    /\ "libc++abi.so" \in DOMAIN found
    /\ Len(found["libc++abi.so"]) = 2
    /\ "libc++abi.so" \notin DOMAIN used
    /\ found["acpp-cuda.json"] = <<>>

\* the target the documentation gives for a compilation flow
C2_Target(s) ==
    LET F == IF s.compilationflow = Absent THEN "omplibraryonly" ELSE s.compilationflow
        arch == IF s.cuda_arch \in {Absent, "none"} THEN "" ELSE s.cuda_arch
    IN  CASE F = "omplibraryonly" -> "omp.library-only"
          [] F = "ompaccelerated" -> "omp.accelerated"
          [] F = "cudallvm" -> IF arch = "" THEN "cuda" ELSE "cuda:sm_" \o arch
          [] F = "cudanvcxx" -> IF arch = "" THEN "cuda-nvcxx" ELSE "cuda-nvcxx:cc" \o arch
          [] F = "generic" -> "generic"

-----------------------------------------------------------------------------
(* Claims about the directives and cmake_args of the recipes               *)

\* C3: cmake_args of AdaptiveCpp raises, with no flag built and no search
\* made, exactly when the flow is cudallvm and cuda_arch is 'none', given or
\* defaulted; no other combination of flow and cuda_arch raises this error.
C3_CudallvmNeedsCudaArch ==
    (pkg = "adaptivecpp" /\ pc \in {"configured", "failed"}) =>
        /\ err = "SpackError" <=>
              (spec.compilationflow = "cudallvm" /\ spec.cuda_arch \in {"none", Absent})
        /\ err = "SpackError" => (args = <<>> /\ found = EmptyMap)

\* C3 witness: cudallvm with the cuda_arch variant missing from the spec
C3_Witness ==
    /\ pkg = "adaptivecpp" /\ pc = "failed" /\ err = "SpackError"
    /\ spec.compilationflow = "cudallvm" /\ spec.cuda_arch = Absent

\* the nvc++ backend is enabled: +nvcxx or compilationflow=cudanvcxx
C4_NvcxxBackend(s) == s.nvcxx \/ s.compilationflow = "cudanvcxx"

\* C4 as stated: in every spec the conflicts do not reject, when the nvc++
\* backend is enabled no condition that makes llvm a dependency holds, so the
\* directives declare no edge to llvm.
C4_NvcxxNeverWithLlvm ==
    (pkg = "adaptivecpp" /\ pc # "directives"
        /\ ~AcppConflicts(spec) /\ C4_NvcxxBackend(spec)) =>
        /\ ~(spec.cuda \/ spec.omp_llvm
             \/ spec.compilationflow \in {"generic", "ompaccelerated", "cudallvm"})
        /\ \A e \in deps : e.to # "llvm"

\* the sets of sanitizers the documentation of the validator accepts
C8_Accepted(V) ==
    /\ "none" \in V => V = {"none"}
    /\ "thread" \in V => V \cap {"address", "leak", "memory"} = {}
    /\ "memory" \in V => V \cap {"address", "leak"} = {}

\* C8: the validator accepts a set of sanitizers if and only if 'none' is
\* alone, 'thread' comes without 'address', 'leak' and 'memory', and 'memory'
\* without 'address' and 'leak'; it raises SpecError for every other set, and
\* an accepted set without 'none' stays accepted with 'undefined_behaviour'.
C8_SanitizerValidator ==
    (pkg = "neso" /\ pc # "directives") =>
        /\ err \in {"none", "SpecError"}
        /\ err = "none" <=> C8_Accepted(spec.sanitizer)
        /\ (err = "none" /\ "none" \notin spec.sanitizer) =>
              validate_sanitizer_variant(spec.sanitizer \cup {"undefined_behaviour"}) = "none"

\* C8 witness: 'thread' with 'memory' is refused
C8_Witness ==
    /\ pkg = "neso" /\ pc = "failed" /\ err = "SpecError"
    /\ spec.sanitizer = {"thread", "memory", "undefined_behaviour"}

\* C9: for a spec the conflict does not reject, cmake_args of NESO-RNG-Toolkit
\* returns exactly the two flags of the platform enabled, nothing when none
\* is, and never requires and disables the same platform.
C9_RngPlatformFlags ==
    (pkg = "neso-rng-toolkit" /\ pc = "configured" /\ ~RngConflicts(spec)) =>
        /\ spec.onemkl => args = <<"-DNESO_RNG_TOOLKIT_REQUIRE_ONEMKL=ON",
                                   "-DNESO_RNG_TOOLKIT_ENABLE_CURAND=OFF">>
        /\ spec.curand => args = <<"-DNESO_RNG_TOOLKIT_REQUIRE_CURAND=ON",
                                   "-DNESO_RNG_TOOLKIT_ENABLE_ONEMKL=OFF">>
        /\ (~spec.onemkl /\ ~spec.curand) => args = <<>>
        /\ ~({"-DNESO_RNG_TOOLKIT_REQUIRE_ONEMKL=ON",
              "-DNESO_RNG_TOOLKIT_ENABLE_ONEMKL=OFF"} \subseteq Range(args))
        /\ ~({"-DNESO_RNG_TOOLKIT_REQUIRE_CURAND=ON",
              "-DNESO_RNG_TOOLKIT_ENABLE_CURAND=OFF"} \subseteq Range(args))

\* C9 witness: +curand alone
C9_Witness ==
    /\ pkg = "neso-rng-toolkit" /\ pc = "configured"
    /\ spec.curand /\ ~spec.onemkl /\ Len(args) = 2

\* C10: in a permitted AdaptiveCpp spec with the nvc++ backend, nvhpc is
\* installed (reachable) but only along the run edge to nvhpc-transitive and
\* that package's build edge, so it is loaded neither when AdaptiveCpp is
\* built nor when it is loaded; nvhpc-transitive version v depends on nvhpc
\* version v alone and has no install phases.
C10_NvhpcNeverLoaded ==
    /\ (pkg = "adaptivecpp" /\ pc # "directives"
          /\ ~AcppConflicts(spec) /\ C4_NvcxxBackend(spec)) =>
          /\ "nvhpc" \in Reach(deps, {"adaptivecpp"}, {"build", "link", "run"})
          /\ \A e \in deps :
                /\ e.to = "nvhpc" => (e.from = "nvhpc-transitive" /\ e.type = {"build"})
                /\ e.to = "nvhpc-transitive" => (e.from = "adaptivecpp" /\ e.type = {"run"})
          /\ \A e, f \in deps :
                (e.to = "nvhpc-transitive" /\ f.from = "nvhpc-transitive") =>
                    (f.to = "nvhpc" /\ f.version = e.version)
          /\ "nvhpc" \notin BuildClosure(deps, "adaptivecpp")
          /\ "nvhpc" \notin LinkRunClosure(deps, "adaptivecpp")
    /\ (pkg = "nvhpc-transitive" /\ pc # "directives") =>
          /\ deps = {Edge("nvhpc-transitive", "nvhpc", spec.version, {"build"})}
          /\ pc = "done" /\ NvhpcTransitivePhases = <<>>

\* C10 witness: the cudanvcxx flow with nvhpc-transitive 22.11 chosen
C10_Witness ==
    /\ pkg = "adaptivecpp" /\ pc = "configured"
    /\ spec.compilationflow = "cudanvcxx" /\ ~AcppConflicts(spec)
    /\ Edge("adaptivecpp", "nvhpc-transitive", 2211, {"run"}) \in deps
    /\ Edge("nvhpc-transitive", "nvhpc", 2211, {"build"}) \in deps
    /\ "nvhpc-transitive" \in LinkRunClosure(deps, "adaptivecpp")

-----------------------------------------------------------------------------
(* Claims about the version constraints                                    *)

\* C5: for a descending list of two or more distinct versions and any index
\* idx, the constraint _restrict_to_version returns admits every versions[j]
\* with j # idx and does not admit versions[idx]; so the conflicts of the
\* version loop make dpcpp version v conflict with every oneAPI compiler
\* version but v.
C5_RestrictExcludesAllButOne ==
    /\ pc \in {"restricted", "declared"} =>
          \A j \in 0..(Len(versions) - 1) :
              Satisfies(At(versions, j), constraint) <=> j # idx
    /\ (pkg = "dpcpp" /\ pc = "declared") =>
          \A v, w \in Range(versions) : DpcppConflict(v, w) <=> v # w

\* C5 witness: a middle index of a list of four versions, loop done
C5_Witness ==
    /\ pkg = "dpcpp" /\ pc = "declared" /\ Len(versions) = 4 /\ idx = 2
    /\ constraint = <<Colon, Ver(At(versions, 3)), Comma, Ver(At(versions, 1)), Colon>>
    /\ Cardinality(conflicts) = 4

-----------------------------------------------------------------------------
(* Claims about the environment hooks of dpcpp                             *)

\* C6: after any sequence of calls of the three hooks on one environment,
\* SYCL_INCLUDE_DIR_HINT and SYCL_LIBRARY_DIR_HINT each hold a single path.
C6_HintsHoldOnePath ==
    (pkg = "dpcpp" /\ calls >= 1) =>
        \A k \in 1..Len(SyclHintVars) :
            /\ SyclHintVars[k] \in DOMAIN env
            /\ Len(env[SyclHintVars[k]]) = 1

\* C6 witness: two hooks have run, the path lists have grown, the hints not
C6_Witness ==
    /\ pkg = "dpcpp" /\ calls = 2 /\ pc = "setup_run_environment"
    /\ Len(env["LD_LIBRARY_PATH"]) >= 10
    /\ env["SYCL_INCLUDE_DIR_HINT"] = <<Parent(compiler_dir(spec))>>
    /\ env["SYCL_LIBRARY_DIR_HINT"] = <<Parent(compiler_dir(spec))>>

-----------------------------------------------------------------------------
(* Claims about temporarily_replace_setuptools                             *)

\* C7 as stated: whatever the outcome of the pip install, of the wrapped
\* installation and of the pip uninstall, when the context manager is left
\* the original site-packages directory is back in place with its content.
C7_SetuptoolsRestored ==
    (pkg = "py-hypnotoad" /\ pc \in {"left", "done"}) =>
        disk.site = spec.setuptools

-----------------------------------------------------------------------------
(* Claims about the patching of the config files                           *)

\* the installed CUDA config file, an empty config when there is none
C11_CudaConfig(fl) == IF Len(fl.cuda) > 0 THEN fl.cuda[1] ELSE EmptyMap

\* C11 as stated: with the nvc++ backend selected, once filter_config_file
\* has completed, the CUDA link line and the CUDA compile flags contain
\* '--no-restrict-keyword' in whichever installed config file holds the key
\* (acpp-cuda.json when it does, the main config otherwise).
C11_NoRestrictKeywordAlways ==
    (pkg = "adaptivecpp" /\ pc = "done" /\ C4_NvcxxBackend(spec)) =>
        \A k \in {default_cuda_link_line, default_cuda_cxx_flags} :
            IF k \in DOMAIN C11_CudaConfig(files)
            THEN "--no-restrict-keyword" \in Range(C11_CudaConfig(files)[k])
            ELSE k \in DOMAIN files.main[1] =>
                    "--no-restrict-keyword" \in Range(files.main[1][k])

\* C12 as stated: two runs of filter_config_file from the same spec, the same
\* installed files and the same llvm prefix contents write the same files.
C12_RunsWriteSameFiles ==
    (pkg \in {"adaptivecpp", "hipsycl"} /\ pc \in {"done", "failed"}) =>
        rerun = files

\* the directories filter_config_file took the llvm libraries from
C16_Dirs(u) ==
    {dirname(u[n]) : n \in DOMAIN u \cap {"libc++.so", "libc++abi.so", "libomp.so"}}

\* line new is line old followed by one flag entry for each directory, and
\* after those by the words of tail or by nothing
C16_Appended(old, new, flag, dirs, tail) ==
    \E q \in Orders(dirs) :
        new \in {old \o JoinFlag(flag, q), old \o JoinFlag(flag, q) \o tail}

\* key k of config new is key k of config old, present or absent alike
C16_Same(old, new, k) ==
    /\ k \in DOMAIN new <=> k \in DOMAIN old
    /\ k \in DOMAIN old => new[k] = old[k]

\* what C16 says of a run with llvm in the spec, and of the keys of a run
C16_WithLlvm(old, new, oldc, newc, has_cuda, dirs) ==
    /\ DOMAIN new = DOMAIN old /\ DOMAIN newc = DOMAIN oldc
    /\ has_cuda =>
          /\ C16_Same(old, new, default_cuda_link_line)
          /\ default_cuda_link_line \in DOMAIN oldc =>
                C16_Appended(oldc[default_cuda_link_line], newc[default_cuda_link_line],
                             "-rpath", dirs, <<"--no-restrict-keyword">>)
    /\ (~has_cuda /\ default_cuda_link_line \in DOMAIN old) =>
          C16_Appended(old[default_cuda_link_line], new[default_cuda_link_line],
                       "-rpath", dirs, <<>>)
    /\ default_omp_link_line \in DOMAIN old =>
          C16_Appended(old[default_omp_link_line], new[default_omp_link_line],
                       "-Wl,-rpath", dirs, <<>>)

\* C16 as stated: the rpath entries go to the CUDA link line of the config
\* that owns it and to the OpenMP link line of the main config, no key is
\* created, and without llvm in the spec no link line is changed.
C16_RpathFrame ==
    [][(pkg = "adaptivecpp" /\ pc = "installed" /\ pc' = "done") =>
          LET old == files.main[1]
              new == files'.main[1]
              oldc == C11_CudaConfig(files)
              newc == C11_CudaConfig(files')
          IN  IF AcppDependsOnLlvm(spec)
              THEN C16_WithLlvm(old, new, oldc, newc, Len(files.cuda) > 0, C16_Dirs(used'))
              ELSE /\ DOMAIN new = DOMAIN old /\ DOMAIN newc = DOMAIN oldc
                   /\ C16_Same(old, new, default_cuda_link_line)
                   /\ C16_Same(old, new, default_omp_link_line)
                   /\ C16_Same(oldc, newc, default_cuda_link_line)]_vars

\* C16 amended: as stated, but without llvm in the spec no '-rpath' entry is
\* added to a link line: the link lines of the main config are unchanged, and
\* the CUDA link line of acpp-cuda.json is unchanged unless the nvc++ backend
\* is selected, when '--no-restrict-keyword' is appended to it.
C16_RpathFrameNoRpathWithoutLlvm ==
    [][(pkg = "adaptivecpp" /\ pc = "installed" /\ pc' = "done") =>
          LET old == files.main[1]
              new == files'.main[1]
              oldc == C11_CudaConfig(files)
              newc == C11_CudaConfig(files')
          IN  IF AcppDependsOnLlvm(spec)
              THEN C16_WithLlvm(old, new, oldc, newc, Len(files.cuda) > 0, C16_Dirs(used'))
              ELSE /\ DOMAIN new = DOMAIN old /\ DOMAIN newc = DOMAIN oldc
                   /\ C16_Same(old, new, default_cuda_link_line)
                   /\ C16_Same(old, new, default_omp_link_line)
                   /\ default_cuda_link_line \in DOMAIN oldc =>
                         newc[default_cuda_link_line] =
                            IF C4_NvcxxBackend(spec)
                            THEN Append(oldc[default_cuda_link_line], "--no-restrict-keyword")
                            ELSE oldc[default_cuda_link_line]]_vars

\* C16 witness: llvm in the spec, acpp-cuda.json present, both files hold a
\* CUDA link line; the rpaths are in that of acpp-cuda.json alone
C16_Witness ==
    /\ pkg = "adaptivecpp" /\ pc = "done" /\ AcppDependsOnLlvm(spec)
    /\ Len(files.cuda) = 1
    /\ default_cuda_link_line \in DOMAIN files.cuda[1]
    /\ default_cuda_link_line \in DOMAIN files.main[1]
    /\ "-rpath" \in Range(files.cuda[1][default_cuda_link_line])
    /\ files.main[1][default_cuda_link_line] = Installed(default_cuda_link_line)
    /\ default_omp_link_line \in DOMAIN files.main[1]
    /\ "-Wl,-rpath" \in Range(files.main[1][default_omp_link_line])

-----------------------------------------------------------------------------
(* Claims about the order of the entries dpcpp's hooks add                 *)

\* the entries the documentation lists for the two library path variables
C17_LibraryEntries(root) ==
    <<root \o <<"compiler", "latest", "lib">>,
      root \o <<"compiler", "latest", "lib", "x64">>,
      root \o <<"compiler", "latest", "compiler", "lib", "intel64_lin">>,
      root \o <<"compiler", "latest", "compiler", "lib">>,
      root \o <<"tbb", "latest", "lib", "intel64", "gcc4.8">>>>

\* C17: whichever of the three hooks runs, LD_LIBRARY_PATH and LIBRARY_PATH
\* keep the entries they had, followed by the four compiler library
\* directories in their declared order and the TBB library directory last;
\* PKG_CONFIG_PATH gets the compiler pkgconfig directory in front of the
\* entries it had and the TBB pkgconfig directory behind them.
C17_HookEntryOrder ==
    [][(pkg = "dpcpp" /\ calls' = calls + 1) =>
          LET root == spec.oneapi_prefix
          IN  /\ pc' \in {"setup_dependent_build_environment",
                          "setup_dependent_run_environment", "setup_run_environment"}
              /\ \A v \in {"LD_LIBRARY_PATH", "LIBRARY_PATH"} :
                    env'[v] = (IF v \in DOMAIN env THEN env[v] ELSE <<>>)
                                \o C17_LibraryEntries(root)
              /\ env'["PKG_CONFIG_PATH"] =
                    <<root \o <<"compiler", "lib", "pkgconfig">>>>
                    \o (IF "PKG_CONFIG_PATH" \in DOMAIN env
                        THEN env["PKG_CONFIG_PATH"] ELSE <<>>)
                    \o <<root \o <<"tbb", "latest", "lib", "pkgconfig">>>>]_vars

\* C17 witness: the second hook has run on an environment that had entries
\* of its own; they are still first in LD_LIBRARY_PATH and now in the middle
\* of PKG_CONFIG_PATH
C17_Witness ==
    /\ pkg = "dpcpp" /\ calls = 2 /\ pc = "setup_dependent_run_environment"
    /\ Len(env["LD_LIBRARY_PATH"]) = 11
    /\ env["LD_LIBRARY_PATH"][1] = <<"usr", "local", "LD_LIBRARY_PATH">>
    /\ env["LD_LIBRARY_PATH"][11] = spec.oneapi_prefix \o <<"tbb", "latest", "lib", "intel64", "gcc4.8">>
    /\ Len(env["PKG_CONFIG_PATH"]) = 5
    /\ env["PKG_CONFIG_PATH"][3] = <<"usr", "local", "PKG_CONFIG_PATH">>

-----------------------------------------------------------------------------
(* Claims about cmake_args of nektar                                       *)

\* the definition of name with the value ON when on holds
C15_Flag(name, on) == "-D" \o name \o "=" \o (IF on THEN "ON" ELSE "OFF")

\* C15: cmake_args of Nektar returns the same 14 definitions in the same
\* order; the eight variant flags are ON exactly when the variant is enabled,
\* NEKTAR_USE_MKL / NEKTAR_USE_OPENBLAS exactly when intel-oneapi-mkl /
\* openblas is in the dependency graph, NEKTAR_USE_PETSC and
\* NEKTAR_ERROR_ON_WARNINGS are OFF, NEKTAR_BUILD_UTILITIES and
\* NEKTAR_USE_THREAD_SAFETY are ON.
C15_NektarFlags ==
    (pkg = "nektar" /\ pc = "configured") =>
        args = <<C15_Flag("NEKTAR_BUILD_DEMOS", spec.demos),
                 C15_Flag("NEKTAR_BUILD_SOLVERS", spec.solvers),
                 C15_Flag("NEKTAR_USE_MPI", spec.mpi),
                 C15_Flag("NEKTAR_USE_FFTW", spec.fftw),
                 C15_Flag("NEKTAR_USE_ARPACK", spec.arpack),
                 C15_Flag("NEKTAR_USE_HDF5", spec.hdf5),
                 C15_Flag("NEKTAR_USE_SCOTCH", spec.scotch),
                 C15_Flag("NEKTAR_USE_PETSC", FALSE),
                 C15_Flag("NEKTAR_ERROR_ON_WARNINGS", FALSE),
                 C15_Flag("NEKTAR_USE_MKL", \E e \in deps : e.to = "intel-oneapi-mkl"),
                 C15_Flag("NEKTAR_USE_OPENBLAS", \E e \in deps : e.to = "openblas"),
                 C15_Flag("NEKTAR_BUILD_PYTHON", spec.python),
                 C15_Flag("NEKTAR_BUILD_UTILITIES", TRUE),
                 C15_Flag("NEKTAR_USE_THREAD_SAFETY", TRUE)>>

\* C15 witness: blas from MKL and lapack from openblas, no demos, hdf5 on
C15_Witness ==
    /\ pkg = "nektar" /\ pc = "configured"
    /\ spec.blas = "intel-oneapi-mkl" /\ spec.lapack = "openblas"
    /\ ~spec.demos /\ spec.hdf5 /\ ~spec.python
    /\ Len(args) = 14
    /\ args[1] = "-DNEKTAR_BUILD_DEMOS=OFF"
    /\ args[6] = "-DNEKTAR_USE_HDF5=ON"
    /\ args[10] = "-DNEKTAR_USE_MKL=ON"
    /\ args[11] = "-DNEKTAR_USE_OPENBLAS=ON"

-----------------------------------------------------------------------------
(* Claims about the symlink step of stdpython                              *)

\* the paths of fs below the top-level directory top
C18_Under(fs, top) == {q \in DOMAIN fs : q[1] = top}

\* the files below top are the same in fs and in gs
C18_SameUnder(fs, gs, top) ==
    /\ C18_Under(fs, top) = C18_Under(gs, top)
    /\ \A q \in C18_Under(fs, top) : fs[q] = gs[q]

\* C18: the step creates bin/python -> bin/python3 and bin/python-config ->
\* bin/python3-config exactly when the version is 3 or later and +pythoncmd
\* is set, and otherwise leaves bin alone; when lib64/pythonX.Y/lib-dynload
\* is a directory and lib/pythonX.Y/lib-dynload is not, every entry of the
\* former has a link of its name in the latter; in every other case nothing
\* under lib changes.
C18_SymlinkStep ==
    [][(pkg = "stdpython" /\ pc = "installed" /\ pc' = "done") =>
          LET X == IF spec.version[1] = 2 THEN "python2.7"
                   ELSE IF spec.version[2] = 8 THEN "python3.8" ELSE "python3.9"
              src == <<"lib64", X, "lib-dynload">>
              dst == <<"lib", X, "lib-dynload">>
              created == DOMAIN disk' \ DOMAIN disk
          IN  /\ IF spec.version[1] >= 3 /\ spec.pythoncmd
                 THEN /\ {<<"bin", "python">>, <<"bin", "python-config">>} \subseteq created
                      /\ disk'[<<"bin", "python">>] = LinkNode(<<"bin", "python3">>)
                      /\ disk'[<<"bin", "python-config">>] = LinkNode(<<"bin", "python3-config">>)
                 ELSE C18_SameUnder(disk, disk', "bin")
              /\ IF (src \in DOMAIN disk /\ disk[src].kind = "dir")
                    /\ ~(dst \in DOMAIN disk /\ disk[dst].kind = "dir")
                 THEN /\ disk'[dst] = DirNode
                      /\ \A q \in DOMAIN disk :
                            (Len(q) = 4 /\ SubSeq(q, 1, 3) = src) =>
                                /\ Append(dst, q[4]) \in DOMAIN disk'
                                /\ disk'[Append(dst, q[4])] = LinkNode(q)
                 ELSE C18_SameUnder(disk, disk', "lib")
              /\ C18_SameUnder(disk, disk', "lib64")
              /\ \A q \in DOMAIN disk : q \in DOMAIN disk' /\ disk'[q] = disk[q]]_vars

\* C18 witness: python 3.9 with +pythoncmd and two modules in lib64 only
C18_Witness ==
    /\ pkg = "stdpython" /\ pc = "done"
    /\ spec.version = <<3, 9, 7>> /\ spec.pythoncmd
    /\ {<<"bin", "python">>,
        <<"lib", "python3.9", "lib-dynload", "math.so">>,
        <<"lib", "python3.9", "lib-dynload", "_ssl.so">>} \subseteq DOMAIN disk
    /\ disk[<<"bin", "python">>] = LinkNode(<<"bin", "python3">>)
    /\ disk[<<"lib", "python3.9", "lib-dynload", "math.so">>]
          = LinkNode(<<"lib64", "python3.9", "lib-dynload", "math.so">>)
    /\ disk[<<"lib", "python3.9", "lib-dynload", "_ssl.so">>]
          = LinkNode(<<"lib64", "python3.9", "lib-dynload", "_ssl.so">>)

-----------------------------------------------------------------------------
(* Claims about the extensions of stdpython                                *)

\* C13: deactivating an extension that is not in the extension map leaves
\* the map and the merged easy-install.pth unchanged and raises no error of
\* its own; an extension that has been deactivated is not in the map, so a
\* second deactivation of it leaves the map and the merged file as the
\* first left them.
C13_DeactivateIdempotent ==
    [][(pkg = "stdpython" /\ view'.last.op = "deactivate") =>
          LET n == view'.last.name
          IN  /\ err' \in {"none", "NameError"}
              /\ n \notin DOMAIN view.exts =>
                    (view'.exts = view.exts /\ view'.pth = view.pth)
              /\ err' = "none" => n \notin DOMAIN view'.exts
              /\ (view.last.op = "deactivate" /\ view.last.name = n /\ err = "none") =>
                    (view'.exts = view.exts /\ view'.pth = view.pth)]_vars

\* C13 witness: py-six was deactivated twice over, py-setuptools is still
\* active and the merged file is still there
C13_Witness ==
    /\ pkg = "stdpython" /\ pc = "deactivated" /\ err = "none"
    /\ view.last = [op |-> "deactivate", name |-> "py-six", wrote |-> FALSE]
    /\ DOMAIN view.exts = {"py-setuptools"}
    /\ view.pth.exists

\* the occurrences <<k, i>> of a kept line: line i of the file of the k-th
\* extension, in ascending order, among those in the map
C14_Occurrences(v) ==
    {o \in (1..Len(ExtNames)) \X (1..MaxLines) :
        LET n == ExtNames[o[1]]
        IN  /\ n \in DOMAIN v.exts
            /\ v.ext_pth[n].exists
            /\ o[2] <= Len(v.ext_pth[n].lines)
            /\ LET t == v.ext_pth[n].lines[o[2]].text
               IN  /\ t # <<>>
                   /\ t[1] \notin {"import", "#"}
                   /\ n # "py-setuptools" =>
                         ~(t[Len(t)] = ".egg" /\ "setuptools" \in Range(SubSeq(t, 1, Len(t) - 1)))}

C14_Text(v, o) == v.ext_pth[ExtNames[o[1]]].lines[o[2]].text

C14_Before(o, p) == o[1] < p[1] \/ (o[1] = p[1] /\ o[2] < p[2])

\* the first occurrence of the path t
C14_First(v, t) ==
    CHOOSE o \in C14_Occurrences(v) :
        /\ C14_Text(v, o) = t
        /\ \A p \in C14_Occurrences(v) : C14_Text(v, p) = t => (p = o \/ C14_Before(o, p))

\* C14: after write_easy_install_pth the merged file does not exist when no
\* line of the extensions' files remains; otherwise it is the header, the
\* remaining lines each once in the order of their first occurrence over the
\* extensions in sorted order, and the footer; no path is blank or starts
\* with 'import' or '#', and a setuptools egg is listed only from
\* py-setuptools.
C14_MergedFile ==
    (pkg = "stdpython" /\ view.last.wrote) =>
        IF C14_Occurrences(view) = {}
        THEN ~view.pth.exists
        ELSE /\ view.pth.exists
             /\ Len(view.pth.lines) >= 3
             /\ view.pth.lines[1] = PthHeader
             /\ view.pth.lines[Len(view.pth.lines)] = PthFooter
             /\ LET paths == SubSeq(view.pth.lines, 2, Len(view.pth.lines) - 1)
                IN  /\ \A i, j \in 1..Len(paths) : paths[i] = paths[j] => i = j
                    /\ Range(paths) = {C14_Text(view, o) : o \in C14_Occurrences(view)}
                    /\ \A i, j \in 1..Len(paths) :
                          i < j => C14_Before(C14_First(view, paths[i]),
                                              C14_First(view, paths[j]))
                    /\ \A i \in 1..Len(paths) :
                          /\ paths[i] # <<>>
                          /\ paths[i][1] \notin {"import", "#"}
                          /\ paths[i] = SetuptoolsEggLine =>
                                /\ "py-setuptools" \in DOMAIN view.exts
                                /\ \E l \in Range(view.ext_pth["py-setuptools"].lines) :
                                      l.text = SetuptoolsEggLine

\* C14 witness: py-six activated before py-setuptools; both list the six egg
\* and the setuptools egg; the merged file has py-setuptools' lines first and
\* each path once
C14_Witness ==
    /\ pkg = "stdpython" /\ pc = "activated" /\ view.last.wrote
    /\ view.last.name = "py-setuptools"
    /\ DOMAIN view.exts = {"py-setuptools", "py-six"}
    /\ view.ext_pth["py-six"] =
          File(<<Line(<<"./", "six_extras">>, ""), Line(SetuptoolsEggLine, "")>>)
    /\ view.ext_pth["py-setuptools"] =
          File(<<Line(SetuptoolsEggLine, ""), Line(<<"./", "six-1.16.0", ".egg">>, " ")>>)
    /\ view.pth = File(<<PthHeader, SetuptoolsEggLine, <<"./", "six-1.16.0", ".egg">>,
                         <<"./", "six_extras">>, PthFooter>>)

====
